---------------------------- MODULE Spec2Model ----------------------------
(***************************************************************************)
(* Model of the NBA shot analyzer core: the season resolver and the player *)
(* shot loader of nba_data_manager.py, and the feature derivation and      *)
(* filter chain of nba_filter_engine.py.                                   *)
(*                                                                         *)
(* Strings the code slices or parses (year tokens, season labels) are      *)
(* sequences of one-character strings; strings the code only compares     *)
(* (data types, player names) are TLA+ strings.  A pandas Timestamp is a   *)
(* record [year, month, day]; NaT is the all-zero record.                  *)
(***************************************************************************)
EXTENDS Integers, Sequences, FiniteSets, TLC

VARIABLES
    sample,               \* SpecDetect: the file handed to _detect_season_from_file
    detected,             \* SpecDetect: what _detect_season_from_file returned
    directory,            \* the data directory: whether it exists, and os.listdir of it
    csv_files,            \* _build_metadata: csv_files, the listed names ending in .csv
    pc,                   \* position of the program: the pass of the scan, or "ready"
    idx,                  \* loop index of the running pass over csv_files
    season_file_mapping,  \* NBADataManager.season_file_mapping
    metadata_cache,       \* NBADataManager.metadata_cache (the SeasonIndex)
    roster_cache,         \* NBADataManager.roster_cache
    result,               \* what the last call of an operation returned
    shot_data,            \* NBAFilterEngine.shot_data
    rng,                  \* numpy's global generator: what seed(42) yields, and its position
    built,                \* the latest input of NBAFilterEngine and what its first build gave
    zone_calculator,      \* ShotZoneCalculator: zone_stats and zone_column
    analyzer,             \* NBAShotAnalyzer: the selections, the loaded shots, the boxes
    engine_source         \* the selections and the frame the filter engine was made from

vars == <<sample, detected, directory, csv_files, pc, idx, season_file_mapping,
          metadata_cache, roster_cache, result, shot_data, rng, built, zone_calculator,
          analyzer, engine_source>>

---------------------------------------------------------------------------
(* Bounds of the model *)

\* rows of a file under season detection (the code samples the first nrows)
MaxCells == 3
\* stand-in for nrows=1000 of the season detection sample
SampleRows == 2
\* files in the data directory
MaxFiles == 2
\* stand-in for chunk_size = 10000 of the player loader
ChunkSize == 2
\* distinct games of a shot set handed to the engine
MaxGames == 3
\* shots of a shot set handed to the engine
MaxShots == 4

---------------------------------------------------------------------------
(* Python values *)

None == <<>>

Range(s) == {s[i] : i \in DOMAIN s}

Put(f, k, v) == [x \in (DOMAIN f) \cup {k} |-> IF x = k THEN v ELSE f[x]]

EmptyDict == <<>>

\* ShotZoneCalculator(): no statistics and no zone column yet
ShotZoneCalculator == [zone_stats |-> EmptyDict, zone_column |-> None]

\* NBAShotAnalyzer(): nothing selected, nothing loaded, the team and player
\* boxes without items and on their first line, the Calculate button
\* disabled.  A selection is None or <<name>>.
NBAShotAnalyzer ==
    [current_season |-> None, current_team |-> None, current_player |-> None,
     shot_data |-> None, team_items |-> <<>>, team_box |-> None,
     player_items |-> <<>>, player_box |-> None, calculate_enabled |-> FALSE]

DigitChars == <<"0", "1", "2", "3", "4", "5", "6", "7", "8", "9">>

DigitVal(c) == (CHOOSE i \in 1..10 : DigitChars[i] = c) - 1

\* str.isdigit(): non-empty and every character a digit
isdigit(tok) == Len(tok) > 0 /\ \A i \in 1..Len(tok) : tok[i] \in Range(DigitChars)

RECURSIVE int(_)
int(tok) == IF Len(tok) = 0 THEN 0
            ELSE 10 * int(SubSeq(tok, 1, Len(tok) - 1)) + DigitVal(tok[Len(tok)])

RECURSIVE StrNat(_)
StrNat(n) == IF n < 10 THEN <<DigitChars[n + 1]>>
             ELSE StrNat(n \div 10) \o <<DigitChars[(n % 10) + 1]>>

\* str(n) / f"{n}" of an integer
str(n) == IF n < 0 THEN <<"-">> \o StrNat(0 - n) ELSE StrNat(n)

\* s[2:]
SliceFrom2(s) == SubSeq(s, 3, Len(s))

---------------------------------------------------------------------------
(* Dates *)

NaT == [year |-> 0, month |-> 0, day |-> 0]

IsLeap(y) == (y % 4 = 0 /\ y % 100 # 0) \/ y % 400 = 0

DaysInMonth(y, m) ==
    IF m = 2 THEN (IF IsLeap(y) THEN 29 ELSE 28)
    ELSE IF m \in {4, 6, 9, 11} THEN 30 ELSE 31

\* pd.to_datetime(cell, format='%Y%m%d', errors='coerce') of one cell
to_datetime(cell) ==
    LET y == cell \div 10000
        m == (cell \div 100) % 100
        d == cell % 100
    IN  IF /\ cell >= 10000101 /\ cell <= 99991231
           /\ m \in 1..12
           /\ d >= 1 /\ d <= DaysInMonth(y, m)
        THEN [year |-> y, month |-> m, day |-> d]
        ELSE NaT

Timestamp(y, m, d) == [year |-> y, month |-> m, day |-> d]

DaysBeforeMonth(y, m) ==
    LET cum == <<0, 31, 59, 90, 120, 151, 181, 212, 243, 273, 304, 334>>
    IN  cum[m] + (IF m > 2 /\ IsLeap(y) THEN 1 ELSE 0)

\* the day number of a Timestamp (proleptic Gregorian ordinal)
ToOrdinal(ts) ==
    LET y == ts.year - 1
    IN  365 * y + (y \div 4) - (y \div 100) + (y \div 400)
        + DaysBeforeMonth(ts.year, ts.month) + ts.day

\* (a - b).days
DaysBetween(a, b) == ToOrdinal(a) - ToOrdinal(b)

TsLeq(a, b) == ToOrdinal(a) <= ToOrdinal(b)

\* Series.min() / Series.max() of a non-empty set of Timestamps
MinDate(S) == CHOOSE a \in S : \A b \in S : TsLeq(a, b)
MaxDate(S) == CHOOSE a \in S : \A b \in S : TsLeq(b, a)

---------------------------------------------------------------------------
(* Season Resolver: _detect_season_from_file *)

\* a file: whether read_csv can open it, the line read_csv chokes on
\* (0: none), its columns, and its rows
File(readable, corrupt_at, columns, rows) ==
    [readable |-> readable, corrupt_at |-> corrupt_at,
     columns |-> columns, rows |-> rows]

\* pd.read_csv(filepath, nrows=n): the first n rows; raises when the file
\* cannot be opened or a malformed line lies within them
ReadRaises(file, n) ==
    \/ ~file.readable
    \/ (file.corrupt_at > 0 /\ file.corrupt_at <= n)

FirstRows(rows, n) == SubSeq(rows, 1, IF Len(rows) < n THEN Len(rows) ELSE n)

\* dates.dropna() of the sampled GAME_DATE column
SampleDates(file) ==
    LET smp == FirstRows(file.rows, SampleRows)
    IN  {to_datetime(smp[i].GAME_DATE) : i \in 1..Len(smp)} \ {NaT}

season_start_year_mut(min_date) ==
    IF min_date.month > 10 THEN min_date.year ELSE min_date.year - 1

season_start_year(min_date) ==
    IF min_date.month >= 10 THEN min_date.year ELSE min_date.year - 1

SeasonLabel(start) == str(start) \o <<"-">> \o SliceFrom2(str(start + 1))

_detect_season_from_file(file) ==
    IF ReadRaises(file, SampleRows) THEN None
    ELSE IF "GAME_DATE" \notin file.columns THEN None
    ELSE IF SampleDates(file) = {} THEN None
    ELSE SeasonLabel(season_start_year(MinDate(SampleDates(file))))

---------------------------------------------------------------------------
(* The data directory *)

\* one row of a shotdetail file
Row(ev, player, team, gid, date, period, minrem) ==
    [GAME_EVENT_ID |-> ev, PLAYER_NAME |-> player, TEAM_NAME |-> team,
     GAME_ID |-> gid, GAME_DATE |-> date, PERIOD |-> period,
     MINUTES_REMAINING |-> minrem]

ShotColumns == {"GAME_EVENT_ID", "PLAYER_NAME", "TEAM_NAME", "GAME_ID",
                "GAME_DATE", "PERIOD", "MINUTES_REMAINING"}

Celtics == "Boston Celtics"
Jazz == "Utah Jazz"

\* regular season 2022-23 under a file name that says 2022
Reg2022Rows ==
    << Row(1, "A", Celtics, 1, 20221020, 1, 10),
       Row(2, "B", Celtics, 1, 20221020, 2, 5),
       Row(3, "A", Celtics, 1, 20221020, 4, 1),
       Row(4, "a", Celtics, 2, 20221023, 1, 11),
       Row(5, "A", Celtics, 2, 20221023, 5, 3) >>

Po2022Rows ==
    << Row(1, "B", Jazz, 3, 20230415, 1, 7),
       Row(2, "A", Celtics, 3, 20230415, 2, 0),
       Row(3, "A", Celtics, 4, 20230416, 3, 12) >>

\* a second regular-season file of 2022-23, without player A
Reg2023Rows ==
    << Row(1, "B", "boston celtics", 5, 20221101, 1, 4),
       Row(2, "B", "boston celtics", 6, 20221102, 3, 9) >>

\* regular season 2020-21; the file is damaged at its fifth line
Reg2020Rows ==
    << Row(1, "A", Jazz, 7, 20201222, 1, 10),
       Row(2, "B", Jazz, 7, 20201222, 1, 9),
       Row(3, "A", Jazz, 8, 20201225, 2, 8),
       Row(4, "B", Jazz, 8, 20201225, 2, 7),
       Row(5, "A", Jazz, 8, 20201225, 3, 6) >>

Po2020Rows ==
    << Row(1, "A", Jazz, 9, 20210522, 4, 2) >>

\* regular season 2019-20; the file cannot be opened
Reg2019Rows ==
    << Row(1, "A", Jazz, 10, 20191023, 1, 10) >>

\* a file whose GAME_DATE cells name no day of the calendar
Reg2018Rows ==
    << Row(1, "A", Jazz, 11, 20181301, 1, 10),
       Row(2, "A", Jazz, 11, 20180230, 2, 5),
       Row(3, "A", Jazz, 12, 0, 3, 1) >>

NoContent == File(TRUE, 0, {}, <<>>)

\* what is on disk under each file name
Disk ==
    [f \in {"shotdetail_2022.csv", "shotdetail_po_2022.csv", "shotdetail_2023.csv",
            "shotdetail_2021.csv", "shotdetail_2020.csv", "shotdetail_po_2020.csv",
            "shotdetail_2019.csv", "shotdetail_2018.csv",
            "nbastats_2023.csv", "nbastats_po_2023.csv", "pbpstats_23.csv",
            "matchups_20230.csv", "datanba_final.csv", "readme.csv", "notes.txt"} |->
        CASE f = "shotdetail_2022.csv"    -> File(TRUE, 0, ShotColumns, Reg2022Rows)
          [] f = "shotdetail_po_2022.csv" -> File(TRUE, 0, ShotColumns, Po2022Rows)
          [] f = "shotdetail_2023.csv"    -> File(TRUE, 0, ShotColumns, Reg2023Rows)
          [] f = "shotdetail_2021.csv"    ->
                File(TRUE, 0, {"PLAYER_NAME"}, <<[PLAYER_NAME |-> "A"]>>)
          [] f = "shotdetail_2020.csv"    -> File(TRUE, 5, ShotColumns, Reg2020Rows)
          [] f = "shotdetail_po_2020.csv" -> File(TRUE, 0, ShotColumns, Po2020Rows)
          [] f = "shotdetail_2019.csv"    -> File(FALSE, 0, ShotColumns, Reg2019Rows)
          [] f = "shotdetail_2018.csv"    -> File(TRUE, 0, ShotColumns, Reg2018Rows)
          [] OTHER                        -> NoContent]

FileNames == DOMAIN Disk

\* filename.replace('.csv', '').split('_')
FilenameParts ==
    [f \in FileNames |->
        CASE f = "shotdetail_2022.csv"    -> <<"shotdetail", "2022">>
          [] f = "shotdetail_po_2022.csv" -> <<"shotdetail", "po", "2022">>
          [] f = "shotdetail_2023.csv"    -> <<"shotdetail", "2023">>
          [] f = "shotdetail_2021.csv"    -> <<"shotdetail", "2021">>
          [] f = "shotdetail_2020.csv"    -> <<"shotdetail", "2020">>
          [] f = "shotdetail_po_2020.csv" -> <<"shotdetail", "po", "2020">>
          [] f = "shotdetail_2019.csv"    -> <<"shotdetail", "2019">>
          [] f = "shotdetail_2018.csv"    -> <<"shotdetail", "2018">>
          [] f = "nbastats_2023.csv"      -> <<"nbastats", "2023">>
          [] f = "nbastats_po_2023.csv"   -> <<"nbastats", "po", "2023">>
          [] f = "pbpstats_23.csv"        -> <<"pbpstats", "23">>
          [] f = "matchups_20230.csv"     -> <<"matchups", "20230">>
          [] f = "datanba_final.csv"      -> <<"datanba", "final">>
          [] f = "readme.csv"             -> <<"readme">>
          [] f = "notes.txt"              -> <<"notes.txt">>]

\* f.endswith('.csv')
EndsWithCsv(f) == f # "notes.txt"

\* the characters of the tokens that end a file name
Chars ==
    [t \in {"2018", "2019", "2020", "2021", "2022", "2023", "23", "20230", "final"} |->
        CASE t = "2018"  -> <<"2", "0", "1", "8">>
          [] t = "2019"  -> <<"2", "0", "1", "9">>
          [] t = "2020"  -> <<"2", "0", "2", "0">>
          [] t = "2021"  -> <<"2", "0", "2", "1">>
          [] t = "2022"  -> <<"2", "0", "2", "2">>
          [] t = "2023"  -> <<"2", "0", "2", "3">>
          [] t = "23"    -> <<"2", "3">>
          [] t = "20230" -> <<"2", "0", "2", "3", "0">>
          [] t = "final" -> <<"f", "i", "n", "a", "l">>]

\* os.path.join(self.data_dir, filename)
PathOf(filename) == <<"nba_data", filename>>

\* the file a path names
FileAt(path) == Disk[path[2]]

---------------------------------------------------------------------------
(* Season Resolver: _build_metadata *)

RegOrPo(is_playoff) == IF is_playoff THEN "po" ELSE "reg"

\* f"{data_type}_{'po' if is_playoff else 'reg'}"
CacheKey(data_type, is_playoff) == <<data_type, RegOrPo(is_playoff)>>

\* f"{actual_season}_{data_type}_{'po' if is_playoff else 'reg'}"
MappingKey(season, data_type, is_playoff) == <<season, data_type, RegOrPo(is_playoff)>>

\* the filename parse shared by the first and the third pass
ParsedName(filename) ==
    LET parts == FilenameParts[filename]
    IN  [ok |-> Len(parts) >= 2,
         data_type |-> parts[1],
         year |-> IF Len(parts) >= 2 THEN Chars[parts[Len(parts)]] ELSE <<>>,
         is_playoff |-> "po" \in Range(parts)]

ShotdetailInfo(filename, data_type, is_playoff, actual_season) ==
    [filename |-> filename, path |-> PathOf(filename), type |-> data_type,
     playoff |-> is_playoff, actual_season |-> actual_season]

FilenameInfo(filename, data_type, is_playoff) ==
    [filename |-> filename, path |-> PathOf(filename), type |-> data_type,
     playoff |-> is_playoff]

\* self.metadata_cache[season][key] = info, creating the season if needed
CachePut(cache, season, key, info) ==
    Put(cache, season,
        Put(IF season \in DOMAIN cache THEN cache[season] ELSE EmptyDict, key, info))

\* f"{year_int-1}-{year[2:]}"
filename_season(year) == str(int(year) - 1) \o <<"-">> \o SliceFrom2(year)

\* a first pass that falls back on the year of the file name
first_pass_mut(mapping, filename) ==
    LET p == ParsedName(filename)
        detected_season == _detect_season_from_file(Disk[filename])
        actual_season == IF detected_season # None THEN detected_season
                         ELSE filename_season(p.year)
    IN  IF p.ok /\ isdigit(p.year) /\ p.data_type = "shotdetail"
        THEN Put(mapping, MappingKey(actual_season, p.data_type, p.is_playoff),
                 ShotdetailInfo(filename, p.data_type, p.is_playoff, actual_season))
        ELSE mapping

\* first pass, one file: record the season its content shows
first_pass(mapping, filename) ==
    LET p == ParsedName(filename)
        actual_season == _detect_season_from_file(Disk[filename])
    IN  IF p.ok /\ isdigit(p.year) /\ p.data_type = "shotdetail" /\ actual_season # None
        THEN Put(mapping, MappingKey(actual_season, p.data_type, p.is_playoff),
                 ShotdetailInfo(filename, p.data_type, p.is_playoff, actual_season))
        ELSE mapping

\* second pass: every content-derived mapping goes into the index
RECURSIVE second_pass(_, _, _)
second_pass(cache, mapping, keys) ==
    IF keys = {} THEN cache
    ELSE LET k == CHOOSE x \in keys : TRUE
             file_info == mapping[k]
         IN  second_pass(CachePut(cache, file_info.actual_season,
                                  CacheKey(file_info.type, file_info.playoff), file_info),
                         mapping, keys \ {k})

\* the third pass without its two protections of the shotdetail entries
third_pass_mut(cache, filename) ==
    LET p == ParsedName(filename)
        season == filename_season(p.year)
        key == CacheKey(p.data_type, p.is_playoff)
    IN  IF p.ok /\ isdigit(p.year)
        THEN CachePut(cache, season, key,
                      FilenameInfo(filename, p.data_type, p.is_playoff))
        ELSE cache

\* third pass, one file: index a non-shotdetail file by its name
third_pass(cache, filename) ==
    LET p == ParsedName(filename)
        season == filename_season(p.year)
        key == CacheKey(p.data_type, p.is_playoff)
    IN  IF p.ok /\ isdigit(p.year) /\ p.data_type # "shotdetail"
        THEN LET with_season == IF season \notin DOMAIN cache
                                THEN Put(cache, season, EmptyDict) ELSE cache
             IN  IF key \notin DOMAIN with_season[season]
                 THEN CachePut(with_season, season, key,
                               FilenameInfo(filename, p.data_type, p.is_playoff))
                 ELSE with_season
        ELSE cache

\* _build_metadata, entry: the directory check and the listing
StartScan ==
    /\ pc = "start"
    /\ IF directory.exists
       THEN /\ csv_files' = SelectSeq(directory.listing, EndsWithCsv)
            /\ pc' = "pass1"
            /\ idx' = 1
       ELSE /\ pc' = "ready"
            /\ UNCHANGED <<csv_files, idx>>
    /\ UNCHANGED <<sample, detected, directory, season_file_mapping, metadata_cache,
                   roster_cache, result, shot_data, rng, built, zone_calculator,
                   analyzer, engine_source>>

\* _build_metadata, one iteration of the first loop
FirstPassStep ==
    /\ pc = "pass1"
    /\ idx <= Len(csv_files)
    /\ season_file_mapping' = first_pass(season_file_mapping, csv_files[idx])
    /\ idx' = idx + 1
    /\ UNCHANGED <<sample, detected, directory, csv_files, pc, metadata_cache,
                   roster_cache, result, shot_data, rng, built, zone_calculator,
                   analyzer, engine_source>>

\* _build_metadata, the second loop
SecondPass ==
    /\ pc = "pass1"
    /\ idx > Len(csv_files)
    /\ metadata_cache' = second_pass(metadata_cache, season_file_mapping,
                                     DOMAIN season_file_mapping)
    /\ pc' = "pass3"
    /\ idx' = 1
    /\ UNCHANGED <<sample, detected, directory, csv_files, season_file_mapping,
                   roster_cache, result, shot_data, rng, built, zone_calculator,
                   analyzer, engine_source>>

\* _build_metadata, one iteration of the third loop
ThirdPassStep ==
    /\ pc = "pass3"
    /\ idx <= Len(csv_files)
    /\ metadata_cache' = third_pass(metadata_cache, csv_files[idx])
    /\ idx' = idx + 1
    /\ UNCHANGED <<sample, detected, directory, csv_files, pc, season_file_mapping,
                   roster_cache, result, shot_data, rng, built, zone_calculator,
                   analyzer, engine_source>>

\* _build_metadata returns; the constructor is done
ScanDone ==
    /\ pc = "pass3"
    /\ idx > Len(csv_files)
    /\ pc' = "ready"
    /\ UNCHANGED <<sample, detected, directory, csv_files, idx, season_file_mapping,
                   metadata_cache, roster_cache, result, shot_data, rng, built,
                   zone_calculator, analyzer, engine_source>>

---------------------------------------------------------------------------
(* Frames *)

\* a DataFrame: its columns and its rows, each row a function of the columns
Frame(columns, rows) == [columns |-> columns, rows |-> rows]

\* pd.DataFrame()
EmptyFrame == Frame({}, <<>>)

NaN == "NaN"

\* df[column] = value on every row
WithColumn(frame, column, value) ==
    Frame(frame.columns \cup {column},
          [i \in DOMAIN frame.rows |->
              [c \in frame.columns \cup {column} |->
                  IF c = column THEN value ELSE frame.rows[i][c]]])

\* pd.concat([a, b], ignore_index=True): rows of a then rows of b, a column
\* one side lacks filled with NaN
Concat(a, b) ==
    LET cols == a.columns \cup b.columns
        fill(r) == [c \in cols |-> IF c \in DOMAIN r THEN r[c] ELSE NaN]
    IN  Frame(cols, [i \in DOMAIN a.rows |-> fill(a.rows[i])]
                    \o [i \in DOMAIN b.rows |-> fill(b.rows[i])])

RECURSIVE ConcatAll(_)
ConcatAll(frames) ==
    IF Len(frames) = 1 THEN frames[1]
    ELSE Concat(ConcatAll(SubSeq(frames, 1, Len(frames) - 1)), frames[Len(frames)])

---------------------------------------------------------------------------
(* Player Shot Loader *)

\* the call left no value yet
NoCall == [op |-> "none"]

Returned(op, args, value) == [op |-> op, args |-> args, value |-> value]

_get_file_path(season, data_type, playoff) ==
    LET key == CacheKey(data_type, playoff)
    IN  IF season \in DOMAIN metadata_cache /\ key \in DOMAIN metadata_cache[season]
        THEN metadata_cache[season][key].path
        ELSE None

\* the file cannot be opened, or one of its lines cannot be parsed
Damaged(file) ==
    \/ ~file.readable
    \/ file.corrupt_at \in 1..Len(file.rows)

\* the chunked read raises: damage, or chunk['PLAYER_NAME'] on a file
\* without that column
LoadRaises(file) ==
    \/ Damaged(file)
    \/ (Len(file.rows) > 0 /\ "PLAYER_NAME" \notin file.columns)

Min(a, b) == IF a < b THEN a ELSE b

\* the loop over pd.read_csv(filepath, chunksize=chunk_size): the list of the
\* non-empty player_chunk of each chunk, from the chunk that begins at start
RECURSIVE read_chunks(_, _, _, _)
read_chunks(rows, start, player_name, player_shots) ==
    IF start > Len(rows) THEN player_shots
    ELSE LET chunk == SubSeq(rows, start, Min(start + ChunkSize - 1, Len(rows)))
             player_chunk == SelectSeq(chunk, LAMBDA r : r.PLAYER_NAME = player_name)
         IN  read_chunks(rows, start + ChunkSize, player_name,
                         IF Len(player_chunk) > 0
                         THEN Append(player_shots, player_chunk) ELSE player_shots)

\* pd.concat(player_shots, ignore_index=True) of chunks of one file
RECURSIVE Flatten(_)
Flatten(chunks) ==
    IF chunks = <<>> THEN <<>>
    ELSE chunks[1] \o Flatten(SubSeq(chunks, 2, Len(chunks)))

_load_player_from_file(filepath, player_name) ==
    LET file == FileAt(filepath)
        player_shots == read_chunks(file.rows, 1, player_name, <<>>)
    IN  IF LoadRaises(file) THEN EmptyFrame
        ELSE IF player_shots # <<>> THEN Frame(file.columns, Flatten(player_shots))
        ELSE EmptyFrame

\* str.lower() of the column names
Lower(c) ==
    CASE c = "GAME_EVENT_ID"     -> "game_event_id"
      [] c = "PLAYER_NAME"       -> "player_name"
      [] c = "TEAM_NAME"         -> "team_name"
      [] c = "GAME_ID"           -> "game_id"
      [] c = "GAME_DATE"         -> "game_date"
      [] c = "PERIOD"            -> "period"
      [] c = "MINUTES_REMAINING" -> "minutes_remaining"
      [] c = "LOC_X"             -> "loc_x"
      [] c = "LOC_Y"             -> "loc_y"
      [] OTHER                   -> c

\* df.columns.str.lower() followed by rename(columns=column_map)
StandardName(c) ==
    CASE Lower(c) = "loc_x" -> "x"
      [] Lower(c) = "loc_y" -> "y"
      [] OTHER              -> Lower(c)

\* what pd.to_datetime makes of an integer without a format: nanoseconds
\* after the epoch
EpochDay == Timestamp(1970, 1, 1)

\* the game_date column after the two parsing attempts: the strict
\* '%Y%m%d' parse when every cell parses, else the free-form parse
ParsedDates(cells) ==
    IF \A i \in DOMAIN cells : to_datetime(cells[i]) # NaT
    THEN [i \in DOMAIN cells |-> to_datetime(cells[i])]
    ELSE [i \in DOMAIN cells |-> EpochDay]

_standardize_shot_data(df) ==
    LET cols == {StandardName(c) : c \in df.columns}
        source(n) == CHOOSE c \in df.columns : StandardName(c) = n
        dates == IF "game_date" \in cols
                 THEN ParsedDates([i \in DOMAIN df.rows |-> df.rows[i][source("game_date")]])
                 ELSE <<>>
    IN  Frame(cols,
              [i \in DOMAIN df.rows |->
                  [n \in cols |-> IF n = "game_date" THEN dates[i]
                                  ELSE df.rows[i][source(n)]]])

\* the frames load_player_shots collects in shots
LoadedShots(season, player_name, include_playoffs) ==
    LET reg_file == _get_file_path(season, "shotdetail", FALSE)
        reg_shots == IF reg_file # None
                     THEN _load_player_from_file(reg_file, player_name) ELSE EmptyFrame
        po_file == _get_file_path(season, "shotdetail", TRUE)
        po_shots == IF include_playoffs /\ po_file # None
                    THEN _load_player_from_file(po_file, player_name) ELSE EmptyFrame
    IN  (IF Len(reg_shots.rows) > 0
         THEN <<WithColumn(reg_shots, "season_type", "Regular")>> ELSE <<>>)
        \o
        (IF Len(po_shots.rows) > 0
         THEN <<WithColumn(po_shots, "season_type", "Playoffs")>> ELSE <<>>)

load_player_shots(season, player_name, include_playoffs) ==
    LET shots == LoadedShots(season, player_name, include_playoffs)
    IN  IF shots # <<>> THEN _standardize_shot_data(ConcatAll(shots))
        ELSE EmptyFrame

---------------------------------------------------------------------------
(* The other operations of NBADataManager *)

\* the order of the characters of a season label
CharRank(c) == IF c = "-" THEN 0 ELSE DigitVal(c) + 1

\* a < b for two strings
RECURSIVE StrLess(_, _)
StrLess(a, b) ==
    IF b = <<>> THEN FALSE
    ELSE IF a = <<>> THEN TRUE
    ELSE IF a[1] # b[1] THEN CharRank(a[1]) < CharRank(b[1])
    ELSE StrLess(Tail(a), Tail(b))

\* sorted(S, reverse=True)
RECURSIVE SortedDescending(_)
SortedDescending(S) ==
    IF S = {} THEN <<>>
    ELSE LET m == CHOOSE x \in S : \A y \in S \ {x} : StrLess(y, x)
         IN  <<m>> \o SortedDescending(S \ {m})

get_available_seasons == SortedDescending(DOMAIN metadata_cache)

DataTypes == {"shotdetail", "nbastats", "datanba", "pbpstats", "matchups"}

validate_data_availability_value(season) ==
    [t \in DataTypes |-> _get_file_path(season, t, FALSE) # None]

\* self.teams_info: two of the thirty teams
teams_info ==
    [t \in {"BOS", "UTA"} |->
        IF t = "BOS"
        THEN [id |-> 1610612738, full_name |-> Celtics, abbreviation |-> "BOS"]
        ELSE [id |-> 1610612762, full_name |-> Jazz, abbreviation |-> "UTA"]]

\* team_full_name.replace(' ', '')
NoSpaces(name) ==
    CASE name = Celtics -> "BostonCeltics"
      [] name = Jazz    -> "UtahJazz"
      [] OTHER          -> name

\* str.contains(name, case=False) on the TEAM_NAME cells of the files
ContainsIgnoreCase(cell, name) ==
    CASE name \in {Celtics, "BOS"} -> cell \in {Celtics, "boston celtics"}
      [] name \in {Jazz, "UTA"}    -> cell = Jazz
      [] OTHER                     -> FALSE

\* the player names in sorted() order
PlayerOrder == <<"A", "B", "a">>

\* sorted(team_data['PLAYER_NAME'].dropna().unique())
SortedPlayers(rows) ==
    SelectSeq(PlayerOrder, LAMBDA n : \E i \in DOMAIN rows : rows[i].PLAYER_NAME = n)

\* the first of possible_names with a match decides; with no match the
\* rows of the last attempt, none, remain
RECURSIVE FirstContained(_, _)
FirstContained(rows, possible_names) ==
    IF possible_names = <<>> THEN <<>>
    ELSE LET team_data == SelectSeq(rows, LAMBDA r :
                              ContainsIgnoreCase(r.TEAM_NAME, possible_names[1]))
         IN  IF Len(team_data) > 0 THEN team_data
             ELSE FirstContained(rows, Tail(possible_names))

_get_players_from_shot_data(team, season, team_info) ==
    LET shot_file == _get_file_path(season, "shotdetail", FALSE)
    IN  IF shot_file = None THEN <<>>
        ELSE LET file == FileAt(shot_file)
                 exact == SelectSeq(file.rows, LAMBDA r : r.TEAM_NAME = team_info.full_name)
                 team_data ==
                     IF Len(exact) > 0 THEN exact
                     ELSE FirstContained(file.rows,
                              <<team_info.full_name, NoSpaces(team_info.full_name),
                                team_info.abbreviation>>)
             IN  IF Damaged(file) \/ ~({"TEAM_NAME", "PLAYER_NAME"} \subseteq file.columns)
                 THEN <<>>
                 ELSE SortedPlayers(team_data)

RosterKey(team, season) == <<team, season>>

\* get_players_for_team_season; api_players is what _get_roster_from_api
\* gives, empty when the API is missing, fails or knows no roster.  The
\* lru_cache around it returns what the body would return again.
get_players_for_team_season(season, team, api_players) ==
    LET cache_key == RosterKey(team, season)
    IN  IF cache_key \in DOMAIN roster_cache
        THEN /\ result' = Returned("get_players_for_team_season", <<season, team>>,
                                   roster_cache[cache_key])
             /\ UNCHANGED roster_cache
        ELSE IF team \notin DOMAIN teams_info
        THEN /\ result' = Returned("get_players_for_team_season", <<season, team>>, <<>>)
             /\ UNCHANGED roster_cache
        ELSE LET players == IF api_players # <<>> THEN api_players
                            ELSE _get_players_from_shot_data(team, season, teams_info[team])
             IN  /\ roster_cache' = Put(roster_cache, cache_key, players)
                 /\ result' = Returned("get_players_for_team_season", <<season, team>>,
                                       players)

\* the arguments the operations are called with
Season2022 == <<"2", "0", "2", "2", "-", "2", "3">>
Season2020 == <<"2", "0", "2", "0", "-", "2", "1">>
Season1999 == <<"1", "9", "9", "9", "-", "0", "0">>
SeasonArgs == {Season2022, Season2020, Season1999}
PlayerArgs == {"A", "X"}
TeamArgs == {"BOS", "SEA"}
ApiRosters == {<<>>, <<"A", "B">>}

GetAvailableSeasons ==
    /\ pc = "ready"
    /\ result' = Returned("get_available_seasons", <<>>, get_available_seasons)
    /\ UNCHANGED <<sample, detected, directory, csv_files, pc, idx, season_file_mapping,
                   metadata_cache, roster_cache, shot_data, rng, built, zone_calculator,
                   analyzer, engine_source>>

\* a lookup that creates the season it does not find
validate_data_availability_mut(season) ==
    /\ result' = Returned("validate_data_availability", <<season>>,
                          validate_data_availability_value(season))
    /\ metadata_cache' = IF season \in DOMAIN metadata_cache THEN metadata_cache
                         ELSE Put(metadata_cache, season, EmptyDict)

validate_data_availability(season) ==
    /\ result' = Returned("validate_data_availability", <<season>>,
                          validate_data_availability_value(season))
    /\ UNCHANGED metadata_cache

ValidateDataAvailability ==
    /\ pc = "ready"
    /\ \E season \in SeasonArgs : validate_data_availability(season)
    /\ UNCHANGED <<sample, detected, directory, csv_files, pc, idx, season_file_mapping,
                   roster_cache, shot_data, rng, built, zone_calculator,
                   analyzer, engine_source>>

GetPlayersForTeamSeason ==
    /\ pc = "ready"
    /\ \E season \in {Season2022}, team \in TeamArgs, api_players \in ApiRosters :
           get_players_for_team_season(season, team, api_players)
    /\ UNCHANGED <<sample, detected, directory, csv_files, pc, idx, season_file_mapping,
                   metadata_cache, shot_data, rng, built, zone_calculator,
                   analyzer, engine_source>>

LoadPlayerShots ==
    /\ pc = "ready"
    /\ \E season \in SeasonArgs, player_name \in PlayerArgs, include_playoffs \in BOOLEAN :
           result' = Returned("load_player_shots",
                              <<season, player_name, include_playoffs>>,
                              load_player_shots(season, player_name, include_playoffs))
    /\ UNCHANGED <<sample, detected, directory, csv_files, pc, idx, season_file_mapping,
                   metadata_cache, roster_cache, shot_data, rng, built, zone_calculator,
                   analyzer, engine_source>>

---------------------------------------------------------------------------
(* Feature Derivation Pipeline: NBAFilterEngine.__init__ *)

\* numpy's generator after np.random.seed(42): z[i] is the i-th standard
\* normal draw in tenths, u[i] the i-th uniform draw in hundredths, shuffle
\* the way permutation(n) orders 1..n; pos counts the draws made since the
\* seed
Draw(stream, i) == stream[((i - 1) % Len(stream)) + 1]

StreamA ==
    [z |-> <<4, -15, 0>>, u |-> <<30, 57, 80, 10>>, shuffle |-> "rotated", pos |-> 0]
StreamB ==
    [z |-> <<-2, 13>>, u |-> <<70, 20, 58>>, shuffle |-> "reversed", pos |-> 0]

\* a generator that is never put back to the start of its sequence
seed_mut(stream) == stream

\* np.random.seed(42)
seed(stream) == [stream EXCEPT !.pos = 0]

\* the k-th np.random.normal(0, 1) and np.random.random() drawn from the
\* generator as it stands
normal(stream, k) == Draw(stream.z, stream.pos + k)
random(stream, k) == Draw(stream.u, stream.pos + k)

\* np.random.permutation(n) as positions of 1..n: the order the seeded
\* generator gives, turned by the draws made since the seed
permutation(stream, n) ==
    LET seeded == IF stream.shuffle = "rotated"
                  THEN [i \in 1..n |-> IF i = 1 THEN n ELSE i - 1]
                  ELSE [i \in 1..n |-> n + 1 - i]
    IN  [i \in 1..n |-> seeded[((i - 1 + stream.pos) % n) + 1]]

\* the generator after draws more draws
advanced(stream, draws) == [stream EXCEPT !.pos = stream.pos + draws]

Abs(x) == IF x < 0 THEN 0 - x ELSE x

Clip(x, lo, hi) == IF x < lo THEN lo ELSE IF x > hi THEN hi ELSE x

\* df[column] = the value value_at gives for each row position
WithColumnAt(frame, column, value_at(_)) ==
    Frame(frame.columns \cup {column},
          [i \in DOMAIN frame.rows |->
              [c \in frame.columns \cup {column} |->
                  IF c = column THEN value_at(i) ELSE frame.rows[i][c]]])

\* rename(columns={old: new}) when old is a column and new is not
Rename(frame, old, new) ==
    IF old \in frame.columns /\ new \notin frame.columns
    THEN Frame((frame.columns \ {old}) \cup {new},
               [i \in DOMAIN frame.rows |->
                   [c \in (frame.columns \ {old}) \cup {new} |->
                       IF c = new THEN frame.rows[i][old] ELSE frame.rows[i][c]]])
    ELSE frame

\* DataFrame.empty
IsEmpty(frame) == frame.rows = <<>> \/ frame.columns = {}

_standardize_columns(frame) ==
    IF IsEmpty(frame) THEN frame
    ELSE LET lowered == Frame({Lower(c) : c \in frame.columns},
                              [i \in DOMAIN frame.rows |->
                                  [n \in {Lower(c) : c \in frame.columns} |->
                                      frame.rows[i][CHOOSE c \in frame.columns : Lower(c) = n]]])
         IN  Rename(Rename(Rename(Rename(Rename(Rename(lowered,
                 "loc_x", "x"), "loc_y", "y"), "htm", "home_team"),
                 "vtm", "visiting_team"), "team_name", "team"), "player_name", "player")

\* Series.unique(): the values in order of first appearance
RECURSIVE Unique(_)
Unique(values) ==
    IF values = <<>> THEN <<>>
    ELSE LET before == Unique(SubSeq(values, 1, Len(values) - 1))
             last == values[Len(values)]
         IN  IF last \in Range(before) THEN before ELSE Append(before, last)

Column(frame, c) == [i \in DOMAIN frame.rows |-> frame.rows[i][c]]

\* drop_duplicates('game_id')[['game_id', 'game_date']]: the first row of
\* each game
unique_games(frame) ==
    LET ids == Unique(Column(frame, "game_id"))
        first(g) == CHOOSE i \in DOMAIN frame.rows :
                        /\ frame.rows[i].game_id = g
                        /\ \A j \in 1..(i - 1) : frame.rows[j].game_id # g
    IN  [k \in DOMAIN ids |->
            [game_id |-> ids[k], game_date |-> frame.rows[first(ids[k])].game_date]]

RECURSIVE Orderings(_)
Orderings(S) ==
    IF S = {} THEN {<<>>}
    ELSE UNION {{<<x>> \o p : p \in Orderings(S \ {x})} : x \in S}

\* what sort_values('game_date') can return: the default quicksort is not
\* stable, rows with equal dates come out in an order the build decides
SortOutcomes(games) ==
    {p \in Orderings(Range(games)) :
        \A i \in 1..(Len(p) - 1) : TsLeq(p[i].game_date, p[i + 1].game_date)}

\* whether the two features sort games at all
SortsGames(frame) == {"game_date", "game_id"} \subseteq frame.columns

Position(seq, x) == CHOOSE i \in DOMAIN seq : seq[i] = x

\* sorted(self.shot_data['game_date'].dropna().unique())
RECURSIVE SortedDates(_)
SortedDates(S) ==
    IF S = {} THEN <<>>
    ELSE LET m == MinDate(S) IN <<m>> \o SortedDates(S \ {m})

unique_dates(frame) == SortedDates(Range(Column(frame, "game_date")) \ {NaT})

\* game numbers in the order the shots appear instead of the date order
_add_game_numbers_mut(frame, sorted_games) ==
    IF "game_date" \notin frame.columns THEN frame
    ELSE IF "game_id" \in frame.columns
    THEN WithColumnAt(frame, "game_num",
             LAMBDA i : Position(Unique(Column(frame, "game_id")), frame.rows[i].game_id))
    ELSE WithColumnAt(frame, "game_num",
             LAMBDA i : Position(unique_dates(frame), frame.rows[i].game_date))

\* sorted_games is unique_games as sort_values returned it
_add_game_numbers(frame, sorted_games) ==
    IF "game_date" \notin frame.columns THEN frame
    ELSE IF "game_id" \in frame.columns
    THEN WithColumnAt(frame, "game_num",
             LAMBDA i : Position([k \in DOMAIN sorted_games |-> sorted_games[k].game_id],
                                 frame.rows[i].game_id))
    ELSE WithColumnAt(frame, "game_num",
             LAMBDA i : Position(unique_dates(frame), frame.rows[i].game_date))

\* the gap to the previous game, the day between two games not taken off
rest_of_mut(dates, k) ==
    IF k = 1 THEN 0
    ELSE LET rest_days == DaysBetween(dates[k], dates[k - 1])
         IN  IF rest_days < 0 THEN 0 ELSE rest_days

\* rest days of the k-th of the dates in ascending order:
\* ((date - prev).days - 1).fillna(0).clip(lower=0)
rest_of(dates, k) ==
    IF k = 1 THEN 0
    ELSE LET rest_days == DaysBetween(dates[k], dates[k - 1]) - 1
         IN  IF rest_days < 0 THEN 0 ELSE rest_days

_add_rest_days(frame, sorted_games) ==
    IF "game_date" \notin frame.columns THEN frame
    ELSE IF "game_id" \in frame.columns
    THEN LET dates == [k \in DOMAIN sorted_games |-> sorted_games[k].game_date]
             ids == [k \in DOMAIN sorted_games |-> sorted_games[k].game_id]
         IN  WithColumnAt(frame, "rest_days",
                 LAMBDA i : rest_of(dates, Position(ids, frame.rows[i].game_id)))
    ELSE WithColumnAt(frame, "rest_days",
             LAMBDA i : rest_of(unique_dates(frame),
                                Position(unique_dates(frame), frame.rows[i].game_date)))

\* estimated_margin, in hundredths of a point: 8 * z of the game's draw,
\* times 0.7 after the third period
_add_score_margin_estimation(frame, stream) ==
    IF "period" \notin frame.columns THEN WithColumn(frame, "estimated_margin", 0)
    ELSE LET game_ids == IF "game_id" \in frame.columns THEN Column(frame, "game_id")
                         ELSE [i \in DOMAIN frame.rows |-> i - 1]
             games == Unique(game_ids)
             seeded == seed(stream)
             base_margin(i) == 8 * normal(seeded, Position(games, game_ids[i]))
         IN  WithColumnAt(frame, "estimated_margin",
                 LAMBDA i : IF frame.rows[i].period <= 3 THEN base_margin(i) * 10
                            ELSE base_margin(i) * 7)

\* an estimate that takes the elapsed game time as the minutes played
_add_minutes_played_estimation_mut(frame, stream) ==
    IF {"period", "minutes_remaining"} \subseteq frame.columns
    THEN WithColumnAt(frame, "estimated_minutes",
             LAMBDA i : Clip(((frame.rows[i].period - 1) * 12
                              + (12 - frame.rows[i].minutes_remaining)) * 100, 0, 4800))
    ELSE WithColumnAt(frame, "estimated_minutes", LAMBDA i : 2500)

\* estimated_minutes, in hundredths of a minute
_add_minutes_played_estimation(frame, stream) ==
    IF {"period", "minutes_remaining"} \subseteq frame.columns
    THEN WithColumnAt(frame, "estimated_minutes",
             LAMBDA i : Clip(((frame.rows[i].period - 1) * 12
                              + (12 - frame.rows[i].minutes_remaining)) * 75, 0, 4800))
    ELSE IF "period" \in frame.columns
    THEN WithColumnAt(frame, "estimated_minutes",
             LAMBDA i : Clip(frame.rows[i].period * 900, 0, 4500))
    ELSE WithColumnAt(frame, "estimated_minutes",
             LAMBDA i : Clip(2500 + 50 * normal(seed(stream), i), 1000, 4500))

\* sorted(unique_games) of game ids
RECURSIVE SortedIds(_)
SortedIds(S) ==
    IF S = {} THEN <<>>
    ELSE LET m == CHOOSE x \in S : \A y \in S : x <= y
         IN  <<m>> \o SortedIds(S \ {m})

\* a walk whose streaks grow without the cap
streak_step_mut(current_streak, stream, next_draw) ==
    LET continues == random(stream, next_draw) < 55 /\ current_streak # 0
        moved == IF continues
                 THEN (IF current_streak > 0 THEN current_streak + 1
                       ELSE current_streak - 1)
                 ELSE IF random(stream, next_draw + 1) < 60
                 THEN (IF current_streak <= 0 THEN 1 ELSE current_streak + 1)
                 ELSE (IF current_streak >= 0 THEN -1 ELSE current_streak - 1)
    IN  [streak |-> moved,
         next_draw |-> IF continues THEN next_draw + 1 ELSE next_draw + 2]

\* one game of the walk: the streak after it, and the draws it used
streak_step(current_streak, stream, next_draw) ==
    LET continues == random(stream, next_draw) < 55 /\ current_streak # 0
        moved == IF continues
                 THEN (IF current_streak > 0 THEN current_streak + 1
                       ELSE current_streak - 1)
                 ELSE IF random(stream, next_draw + 1) < 60
                 THEN (IF current_streak <= 0 THEN 1 ELSE current_streak + 1)
                 ELSE (IF current_streak >= 0 THEN -1 ELSE current_streak - 1)
    IN  [streak |-> Clip(moved, -8, 8),
         next_draw |-> IF continues THEN next_draw + 1 ELSE next_draw + 2]

\* game_streaks of the games from the k-th on
RECURSIVE streak_walk(_, _, _, _, _)
streak_walk(games, k, current_streak, stream, next_draw) ==
    IF k > Len(games) THEN <<>>
    ELSE LET step == streak_step(current_streak, stream, next_draw)
         IN  <<step.streak>>
             \o streak_walk(games, k + 1, step.streak, stream, step.next_draw)

\* a walk that leaves the first game without a streak
_add_win_loss_streak_estimation_mut(frame, stream) ==
    IF "game_id" \in frame.columns
    THEN LET games == SortedIds(Range(Column(frame, "game_id")))
             game_streaks == <<0>> \o streak_walk(Tail(games), 1, 0, seed(stream), 1)
         IN  WithColumnAt(frame, "estimated_streak",
                 LAMBDA i : game_streaks[Position(games, frame.rows[i].game_id)])
    ELSE WithColumnAt(frame, "estimated_streak", LAMBDA i : 0)

_add_win_loss_streak_estimation(frame, stream) ==
    IF "game_id" \in frame.columns
    THEN LET games == SortedIds(Range(Column(frame, "game_id")))
             game_streaks == streak_walk(games, 1, 0, seed(stream), 1)
         IN  WithColumnAt(frame, "estimated_streak",
                 LAMBDA i : game_streaks[Position(games, frame.rows[i].game_id)])
    \* the streak_weights add up to 1.2: np.random.choice raises before it
    \* draws, and the handler sets the safe fallback
    ELSE WithColumnAt(frame, "estimated_streak", LAMBDA i : 0)

\* the draws streak_walk makes from the k-th game on
RECURSIVE walk_draws(_, _, _, _, _)
walk_draws(games, k, current_streak, stream, next_draw) ==
    IF k > Len(games) THEN next_draw - 1
    ELSE LET step == streak_step(current_streak, stream, next_draw)
         IN  walk_draws(games, k + 1, step.streak, stream, step.next_draw)

\* the generator _add_win_loss_streak_estimation leaves behind: it is the
\* last feature function, and it seeds before anything else
generator_after_build(frame, stream) ==
    IF IsEmpty(frame) THEN stream
    ELSE IF "game_id" \in frame.columns
    THEN advanced(seed(stream),
                  walk_draws(SortedIds(Range(Column(frame, "game_id"))), 1, 0,
                             seed(stream), 1))
    ELSE seed(stream)

_prepare_enhanced_data(frame, sorted_games, stream) ==
    IF IsEmpty(frame) THEN frame
    ELSE _add_win_loss_streak_estimation(
             _add_minutes_played_estimation(
                 _add_score_margin_estimation(
                     _add_rest_days(
                         _add_game_numbers(frame, sorted_games),
                         sorted_games),
                     stream),
                 stream),
             stream)

\* the orders sort_values may give the unique games of a frame
SortChoices(standardized) ==
    IF ~IsEmpty(standardized) /\ SortsGames(standardized)
    THEN SortOutcomes(unique_games(standardized))
    ELSE {<<>>}

\* NBAFilterEngine(shot_data) on the frame load_player_shots returned, or
\* on a shot set handed to the constructor. sort_values is a function of
\* its input: on the frame of the build before, it gives the same order.
ConstructEngine(frame) ==
    LET standardized == _standardize_columns(frame)
        again == built # None /\ built.input = frame
    IN  \E sorted_games \in SortChoices(standardized) :
            /\ again => sorted_games = built.sorted_games
            /\ shot_data' = _prepare_enhanced_data(standardized, sorted_games, rng)
            /\ rng' = generator_after_build(standardized, rng)
            /\ built' = IF again THEN built
                         ELSE [input |-> frame, sorted_games |-> sorted_games,
                               output |-> shot_data', entry |-> rng.pos,
                               rebuilt |-> FALSE, again |-> rng.pos]

BuildEngine ==
    /\ pc = "ready"
    /\ result.op \in {"load_player_shots", "shot_set"}
    /\ ConstructEngine(result.value)
    /\ UNCHANGED <<sample, detected, directory, csv_files, pc, idx, season_file_mapping,
                   metadata_cache, roster_cache, result, zone_calculator, analyzer,
                   engine_source>>

\* NBAFilterEngine(shot_data) once more, on a frame identical to the one of
\* the build before (the same player's shots loaded again)
RebuildEngine ==
    /\ pc = "ready"
    /\ built # None
    /\ result.op = "apply_all_filters"
    /\ LET standardized == _standardize_columns(built.input)
       IN  /\ shot_data' = _prepare_enhanced_data(standardized, built.sorted_games, rng)
           /\ rng' = generator_after_build(standardized, rng)
    /\ built' = [built EXCEPT !.rebuilt = TRUE, !.again = rng.pos]
    /\ UNCHANGED <<sample, detected, directory, csv_files, pc, idx, season_file_mapping,
                   metadata_cache, roster_cache, result, zone_calculator,
                   analyzer, engine_source>>

---------------------------------------------------------------------------
(* Filter Predicate Engine *)

\* data[mask]
Select(data, keep(_)) == Frame(data.columns, SelectSeq(data.rows, keep))

\* word in filter_value, for the words the predicates look for in the
\* options of the filter boxes (the plus-minus sign of an option is
\* written +-)
In(word, filter_value) ==
    CASE word = "Playoffs"    -> filter_value = "Playoffs Only"
      [] word = "Early"       -> filter_value = "Early Season (1-25)"
      [] word = "Mid"         -> filter_value = "Mid Season (26-60)"
      [] word = "Late"        -> filter_value = "Late Season (61-82)"
      [] word = "Close"       -> filter_value = "Close (+-10)"
      [] word = "Clutch"      -> filter_value = "Clutch (+-5)"
      [] word = "Blowout"     -> filter_value = "Blowout (>10)"
      [] word = "Competitive" -> filter_value = "Competitive (+-5)"
      [] word = "Fresh"       -> filter_value = "Fresh (0-15min)"
      [] word = "Normal"      -> filter_value = "Normal (15-30min)"
      [] word = "Heavy"       -> filter_value = "Heavy (30-40min)"
      [] word = "Exhausted"   -> filter_value = "Exhausted (40+min)"
      [] word = "0-20"        -> filter_value = "0-20 min"
      [] word = "20-35"       -> filter_value = "20-35 min"
      [] word = "35+"         -> filter_value = "35+ min"
      [] OTHER                -> FALSE

\* str.contains(word, case=False) on a season_type cell
SeasonTypeContains(cell, word) ==
    CASE word = "Playoff" -> cell = "Playoffs"
      [] word = "Regular" -> cell = "Regular"
      [] OTHER            -> FALSE

_filter_quarter(data, filter_value) ==
    IF "period" \notin data.columns THEN data
    ELSE CASE filter_value = "1st" -> Select(data, LAMBDA r : r.period = 1)
           [] filter_value = "2nd" -> Select(data, LAMBDA r : r.period = 2)
           [] filter_value = "3rd" -> Select(data, LAMBDA r : r.period = 3)
           [] filter_value = "4th" -> Select(data, LAMBDA r : r.period = 4)
           [] filter_value = "OT"  -> Select(data, LAMBDA r : r.period >= 5)
           [] OTHER                -> data

\* a game_num filter whose middle phase ends before game 60
phase_by_game_num_mut(data, filter_value) ==
    IF "game_num" \notin data.columns THEN data
    ELSE IF In("Early", filter_value) THEN Select(data, LAMBDA r : r.game_num <= 25)
    ELSE IF In("Mid", filter_value)
    THEN Select(data, LAMBDA r : r.game_num > 25 /\ r.game_num < 60)
    ELSE IF In("Late", filter_value) THEN Select(data, LAMBDA r : r.game_num > 60)
    ELSE data

\* the game_num part of the season phase filter
phase_by_game_num(data, filter_value) ==
    IF "game_num" \notin data.columns THEN data
    ELSE IF In("Early", filter_value) THEN Select(data, LAMBDA r : r.game_num <= 25)
    ELSE IF In("Mid", filter_value)
    THEN Select(data, LAMBDA r : r.game_num > 25 /\ r.game_num <= 60)
    ELSE IF In("Late", filter_value) THEN Select(data, LAMBDA r : r.game_num > 60)
    ELSE data

_filter_season_phase(data, filter_value) ==
    IF "season_type" \in data.columns
    THEN IF filter_value = "Playoffs Only"
         THEN Select(data, LAMBDA r : SeasonTypeContains(r.season_type, "Playoff"))
         ELSE IF filter_value = "Regular Season Only"
         THEN Select(data, LAMBDA r : SeasonTypeContains(r.season_type, "Regular"))
         ELSE IF In("Playoffs", filter_value)
         THEN Select(data, LAMBDA r : SeasonTypeContains(r.season_type, "Playoff"))
         ELSE phase_by_game_num(
                  Select(data, LAMBDA r : SeasonTypeContains(r.season_type, "Regular")),
                  filter_value)
    ELSE phase_by_game_num(data, filter_value)

\* estimated_margin is held in hundredths of a point
_filter_score_margin(data, filter_value) ==
    IF "estimated_margin" \notin data.columns THEN data
    ELSE IF In("Close", filter_value) \/ In("Clutch", filter_value)
    THEN Select(data, LAMBDA r : Abs(r.estimated_margin) <= 1000)
    ELSE IF In("Blowout", filter_value)
    THEN Select(data, LAMBDA r : Abs(r.estimated_margin) > 1000)
    ELSE IF In("Competitive", filter_value)
    THEN Select(data, LAMBDA r : Abs(r.estimated_margin) <= 500)
    ELSE data

_filter_game_flow(data, filter_value) ==
    IF "estimated_margin" \notin data.columns THEN data
    ELSE CASE filter_value = "Leading"  -> Select(data, LAMBDA r : r.estimated_margin > 200)
           [] filter_value = "Trailing" -> Select(data, LAMBDA r : r.estimated_margin < -200)
           [] filter_value = "Tied"     ->
                  Select(data, LAMBDA r : Abs(r.estimated_margin) <= 200)
           [] OTHER                     -> data

\* a rest_days filter that reads the options as days between games
_filter_rest_days_mut(data, filter_value) ==
    IF "rest_days" \notin data.columns THEN data
    ELSE CASE filter_value = "Back-to-Back (0 days)" ->
                  Select(data, LAMBDA r : r.rest_days = 0)
           [] filter_value = "1 Day Rest"   -> Select(data, LAMBDA r : r.rest_days = 0)
           [] filter_value = "2 Days Rest"  -> Select(data, LAMBDA r : r.rest_days = 1)
           [] filter_value = "3+ Days Rest" -> Select(data, LAMBDA r : r.rest_days >= 2)
           [] OTHER                         -> data

_filter_rest_days(data, filter_value) ==
    IF "rest_days" \notin data.columns THEN data
    ELSE CASE filter_value \in {"Back-to-Back (0 days)", "Back-to-Back"} ->
                  Select(data, LAMBDA r : r.rest_days = 0)
           [] filter_value = "1 Day Rest"   -> Select(data, LAMBDA r : r.rest_days = 1)
           [] filter_value = "2 Days Rest"  -> Select(data, LAMBDA r : r.rest_days = 2)
           [] filter_value = "3+ Days Rest" -> Select(data, LAMBDA r : r.rest_days >= 3)
           [] filter_value = "1+ Days Rest" -> Select(data, LAMBDA r : r.rest_days >= 1)
           [] filter_value = "2+ Days Rest" -> Select(data, LAMBDA r : r.rest_days >= 2)
           [] OTHER                         -> data

_filter_streak(data, filter_value) ==
    IF "estimated_streak" \notin data.columns THEN data
    ELSE CASE filter_value \in {"Win Streak (Any)", "Win Streak"} ->
                  Select(data, LAMBDA r : r.estimated_streak > 0)
           [] filter_value = "2+ Game Win Streak" ->
                  Select(data, LAMBDA r : r.estimated_streak >= 2)
           [] filter_value = "3+ Game Win Streak" ->
                  Select(data, LAMBDA r : r.estimated_streak >= 3)
           [] filter_value = "5+ Game Win Streak" ->
                  Select(data, LAMBDA r : r.estimated_streak >= 5)
           [] filter_value \in {"Loss Streak (Any)", "Loss Streak"} ->
                  Select(data, LAMBDA r : r.estimated_streak < 0)
           [] filter_value = "2+ Game Loss Streak" ->
                  Select(data, LAMBDA r : r.estimated_streak <= -2)
           [] filter_value = "3+ Game Loss Streak" ->
                  Select(data, LAMBDA r : r.estimated_streak <= -3)
           [] filter_value = "5+ Game Loss Streak" ->
                  Select(data, LAMBDA r : r.estimated_streak <= -5)
           [] filter_value \in {"No Streak", "Neutral"} ->
                  Select(data, LAMBDA r : r.estimated_streak = 0)
           [] OTHER -> data

_filter_back_to_back(data, filter_value) ==
    IF "rest_days" \notin data.columns THEN data
    ELSE CASE filter_value = "Yes" -> Select(data, LAMBDA r : r.rest_days = 0)
           [] filter_value = "No"  -> Select(data, LAMBDA r : r.rest_days > 0)
           [] OTHER                -> data

\* estimated_minutes is held in hundredths of a minute
_filter_minutes_played(data, filter_value) ==
    IF "estimated_minutes" \notin data.columns THEN data
    ELSE IF In("Fresh", filter_value)
    THEN Select(data, LAMBDA r : r.estimated_minutes <= 1500)
    ELSE IF In("Normal", filter_value)
    THEN Select(data, LAMBDA r : r.estimated_minutes > 1500 /\ r.estimated_minutes <= 3000)
    ELSE IF In("Heavy", filter_value)
    THEN Select(data, LAMBDA r : r.estimated_minutes > 3000 /\ r.estimated_minutes <= 4000)
    ELSE IF In("Exhausted", filter_value)
    THEN Select(data, LAMBDA r : r.estimated_minutes > 4000)
    ELSE IF In("0-20", filter_value)
    THEN Select(data, LAMBDA r : r.estimated_minutes <= 2000)
    ELSE IF In("20-35", filter_value)
    THEN Select(data, LAMBDA r : r.estimated_minutes > 2000 /\ r.estimated_minutes <= 3500)
    ELSE IF In("35+", filter_value)
    THEN Select(data, LAMBDA r : r.estimated_minutes > 3500)
    ELSE data

\* the abbreviation table and the spellings added to the full name,
\* duplicates dropped
_get_team_name_variations(team_full_name) ==
    CASE team_full_name = Celtics ->
             <<"Boston Celtics", "BOS", "BOSTON CELTICS", "boston celtics", "BostonCeltics">>
      [] team_full_name = Jazz ->
             <<"Utah Jazz", "UTA", "UTAH JAZZ", "utah jazz", "UtahJazz">>

\* the characters of an abbreviation
AbbreviationChars(abbr) ==
    CASE abbr = "BOS" -> <<"B", "O", "S">>
      [] abbr = "UTA" -> <<"U", "T", "A">>

\* str.startswith and str.contains on the characters of a cell
startswith(cell, prefix) ==
    Len(prefix) <= Len(cell) /\ SubSeq(cell, 1, Len(prefix)) = prefix

contains(cell, part) ==
    \E k \in 0..(Len(cell) - Len(part)) : SubSeq(cell, k + 1, k + Len(part)) = part

\* data[mask] for a mask given by row positions
RECURSIVE KeepAt(_, _, _)
KeepAt(rows, positions, i) ==
    IF i > Len(rows) THEN <<>>
    ELSE (IF i \in positions THEN <<rows[i]>> ELSE <<>>) \o KeepAt(rows, positions, i + 1)

\* Method 3 runs when neither Method 1 nor Method 2 returned
uses_fallback(data, filter_value) ==
    ~ /\ filter_value \in {"Home", "Away"}
      /\ \/ {"home_team", "visiting_team"} \subseteq data.columns
         \/ "matchup" \in data.columns

\* the items np.random.choice(..., replace=False) shuffles in Method 3
fallback_size(data) ==
    IF "game_id" \in data.columns THEN Len(Unique(Column(data, "game_id")))
    ELSE Len(data.rows)

\* a Method 3 that draws its split without seeding the generator
_filter_home_away_fixed_mut(data, filter_value, team, stream) ==
    LET team_variations == _get_team_name_variations(team)
        team_abbr == AbbreviationChars(team_variations[2])
        shuffled == permutation(stream, fallback_size(data))
        chosen == {shuffled[i] : i \in 1..(fallback_size(data) \div 2)}
        unique == Unique(Column(data, "game_id"))
        home_games == {unique[k] : k \in chosen}
    IN  IF uses_fallback(data, filter_value)
        THEN IF "game_id" \in data.columns
             THEN IF filter_value = "Home"
                  THEN Select(data, LAMBDA r : r.game_id \in home_games)
                  ELSE Select(data, LAMBDA r : r.game_id \notin home_games)
             ELSE IF filter_value = "Home"
                  THEN Frame(data.columns, KeepAt(data.rows, chosen, 1))
                  ELSE Frame(data.columns,
                             KeepAt(data.rows, (DOMAIN data.rows) \ chosen, 1))
        ELSE IF {"home_team", "visiting_team"} \subseteq data.columns
        THEN IF filter_value = "Home"
             THEN Select(data, LAMBDA r : r.home_team \in Range(team_variations))
             ELSE Select(data, LAMBDA r : r.visiting_team \in Range(team_variations))
        ELSE IF filter_value = "Home"
        THEN Select(data, LAMBDA r : \/ ~contains(r.matchup, <<"@">>)
                                     \/ startswith(r.matchup, team_abbr)
                                     \/ contains(r.matchup, team_abbr \o <<" ", "v", "s">>))
        ELSE Select(data, LAMBDA r : \/ contains(r.matchup, <<"@">>)
                                     \/ contains(r.matchup, <<"@", " ">> \o team_abbr)
                                     \/ contains(r.matchup, <<"a", "t", " ">> \o team_abbr))

_filter_home_away_fixed(data, filter_value, team, stream) ==
    LET team_variations == _get_team_name_variations(team)
        team_abbr == AbbreviationChars(team_variations[2])
        shuffled == permutation(seed(stream), fallback_size(data))
        chosen == {shuffled[i] : i \in 1..(fallback_size(data) \div 2)}
        unique == Unique(Column(data, "game_id"))
        home_games == {unique[k] : k \in chosen}
    IN  IF uses_fallback(data, filter_value)
        THEN IF "game_id" \in data.columns
             THEN IF filter_value = "Home"
                  THEN Select(data, LAMBDA r : r.game_id \in home_games)
                  ELSE Select(data, LAMBDA r : r.game_id \notin home_games)
             ELSE IF filter_value = "Home"
                  THEN Frame(data.columns, KeepAt(data.rows, chosen, 1))
                  ELSE Frame(data.columns,
                             KeepAt(data.rows, (DOMAIN data.rows) \ chosen, 1))
        ELSE IF {"home_team", "visiting_team"} \subseteq data.columns
        THEN IF filter_value = "Home"
             THEN Select(data, LAMBDA r : r.home_team \in Range(team_variations))
             ELSE Select(data, LAMBDA r : r.visiting_team \in Range(team_variations))
        ELSE IF filter_value = "Home"
        THEN Select(data, LAMBDA r : \/ ~contains(r.matchup, <<"@">>)
                                     \/ startswith(r.matchup, team_abbr)
                                     \/ contains(r.matchup, team_abbr \o <<" ", "v", "s">>))
        ELSE Select(data, LAMBDA r : \/ contains(r.matchup, <<"@">>)
                                     \/ contains(r.matchup, <<"@", " ">> \o team_abbr)
                                     \/ contains(r.matchup, <<"a", "t", " ">> \o team_abbr))

\* the generator after _apply_single_filter: only Method 3 of the
\* home_away filter seeds it and draws
generator_after_filter(data, filter_name, filter_value, stream) ==
    IF filter_name = "home_away" /\ uses_fallback(data, filter_value)
    THEN advanced(seed(stream), fallback_size(data))
    ELSE stream

\* a name without a branch leaves the data unchanged
_apply_single_filter(data, filter_name, filter_value, team, stream) ==
    CASE filter_name = "home_away"      ->
             _filter_home_away_fixed(data, filter_value, team, stream)
      [] filter_name = "quarter"        -> _filter_quarter(data, filter_value)
      [] filter_name = "season_phase"   -> _filter_season_phase(data, filter_value)
      [] filter_name = "score_margin"   -> _filter_score_margin(data, filter_value)
      [] filter_name = "game_flow"      -> _filter_game_flow(data, filter_value)
      [] filter_name = "rest_days"      -> _filter_rest_days(data, filter_value)
      [] filter_name = "streak"         -> _filter_streak(data, filter_value)
      [] filter_name = "back_to_back"   -> _filter_back_to_back(data, filter_value)
      [] filter_name = "minutes_played" -> _filter_minutes_played(data, filter_value)
      [] OTHER                          -> data

RECURSIVE filter_loop_mut(_, _, _, _, _)
RECURSIVE filter_loop(_, _, _, _, _)
RECURSIVE loop_generator(_, _, _, _, _)

\* a loop that hands every item to its filter, "All" included
filter_loop_mut(data, filters, k, team, stream) ==
    IF k > Len(filters) THEN data
    ELSE LET narrowed ==
                 _apply_single_filter(data, filters[k][1], filters[k][2], team, stream)
         IN  IF Len(narrowed.rows) = 0 THEN narrowed
             ELSE filter_loop_mut(narrowed, filters, k + 1, team,
                      generator_after_filter(data, filters[k][1], filters[k][2], stream))

\* the loop over filters.items() from the k-th item on; filters is the
\* sequence of the <<name, value>> items in iteration order
filter_loop(data, filters, k, team, stream) ==
    IF k > Len(filters) THEN data
    ELSE IF filters[k][2] = "All" THEN filter_loop(data, filters, k + 1, team, stream)
    ELSE LET narrowed ==
                 _apply_single_filter(data, filters[k][1], filters[k][2], team, stream)
         IN  IF Len(narrowed.rows) = 0 THEN narrowed
             ELSE filter_loop(narrowed, filters, k + 1, team,
                      generator_after_filter(data, filters[k][1], filters[k][2], stream))

\* the generator the loop leaves behind
loop_generator(data, filters, k, team, stream) ==
    IF k > Len(filters) THEN stream
    ELSE IF filters[k][2] = "All" THEN loop_generator(data, filters, k + 1, team, stream)
    ELSE LET narrowed ==
                 _apply_single_filter(data, filters[k][1], filters[k][2], team, stream)
             moved == generator_after_filter(data, filters[k][1], filters[k][2], stream)
         IN  IF Len(narrowed.rows) = 0 THEN moved
             ELSE loop_generator(narrowed, filters, k + 1, team, moved)

\* the loop without the early return of an empty engine: the rows of
\* a frame that cannot be filtered are made up
apply_all_filters_mut(frame, player_name, team, filters, stream) ==
    IF IsEmpty(frame) THEN Frame({"player"}, <<[player |-> player_name]>>)
    ELSE filter_loop(frame, filters, 1, team, stream)

apply_all_filters(frame, player_name, team, filters, stream) ==
    IF IsEmpty(frame) THEN frame
    ELSE filter_loop(frame, filters, 1, team, stream)

generator_after_filters(frame, team, filters, stream) ==
    IF IsEmpty(frame) THEN stream
    ELSE loop_generator(frame, filters, 1, team, stream)

\* get_current_filters(): the dimensions in the order of the filter boxes,
\* home_away at "All"
FilterSpecOf(quarter, season_phase, score_margin, game_flow, rest_days, streak, minutes) ==
    << <<"home_away", "All">>, <<"quarter", quarter>>, <<"season_phase", season_phase>>,
       <<"score_margin", score_margin>>, <<"game_flow", game_flow>>,
       <<"rest_days", rest_days>>, <<"streak", streak>>,
       <<"minutes_played", minutes>> >>

AllFilters == FilterSpecOf("All", "All", "All", "All", "All", "All", "All")

\* get_current_filters() with one filter box moved from "All"
OneFilter(filter_name, filter_value) ==
    [k \in DOMAIN AllFilters |->
        IF AllFilters[k][1] = filter_name THEN <<filter_name, filter_value>>
        ELSE AllFilters[k]]

FilterSpecs ==
    { AllFilters,
      FilterSpecOf("All", "All", "All", "All", "2 Days Rest", "All", "All"),
      FilterSpecOf("1st", "All", "All", "All", "Back-to-Back (0 days)", "All", "All"),
      FilterSpecOf("All", "Playoffs Only", "All", "Leading", "All", "All", "All"),
      FilterSpecOf("OT", "Early Season (1-25)", "Close (+-10)", "All", "All",
                   "Win Streak (Any)", "Normal (15-30min)") }

\* apply_all_filters with a filter dict of specs; player_name is only
\* printed, team only reaches the home_away filter
Apply(specs) ==
    /\ pc = "ready"
    /\ shot_data # None
    /\ \E filters \in specs, player_name \in {"A"}, team \in {Celtics} :
           /\ result' = Returned("apply_all_filters", <<player_name, team, filters>>,
                            apply_all_filters(shot_data, player_name, team, filters, rng))
           /\ rng' = generator_after_filters(shot_data, team, filters, rng)
    /\ UNCHANGED <<sample, detected, directory, csv_files, pc, idx, season_file_mapping,
                   metadata_cache, roster_cache, shot_data, built, zone_calculator,
                   analyzer, engine_source>>

ApplyAllFilters == Apply(FilterSpecs)

---------------------------------------------------------------------------
(* Specification SpecDetect: _detect_season_from_file on bounded files *)

\* GAME_DATE cells: in and around the 2021-22 and 1999-00 seasons, and two
\* cells that are no date
DateCells == {20211001, 20211120, 20220115, 20220630, 20220701,
              19991231, 20000229, 20221340, 20220931}

RECURSIVE SeqsUpTo(_, _)
SeqsUpTo(S, n) ==
    IF n = 0 THEN {<<>>}
    ELSE LET shorter == SeqsUpTo(S, n - 1)
         IN  shorter \cup {Append(s, x) : s \in {t \in shorter : Len(t) = n - 1}, x \in S}

Pending == <<"?">>

SampleFiles ==
    {File(r, c, {"GAME_DATE"}, rows) :
        r \in BOOLEAN,
        c \in 0..1,
        rows \in {[i \in DOMAIN cells |-> [GAME_DATE |-> cells[i]]] :
                      cells \in SeqsUpTo(DateCells, MaxCells)}}
    \cup
    {File(TRUE, 0, {"PLAYER_NAME"}, [i \in 1..n |-> [PLAYER_NAME |-> "A"]]) :
        n \in 0..MaxCells}

\* everything outside the season detection stays as constructed
Idle ==
    /\ directory = None
    /\ csv_files = <<>>
    /\ pc = "detect"
    /\ idx = 0
    /\ season_file_mapping = EmptyDict
    /\ metadata_cache = EmptyDict
    /\ roster_cache = EmptyDict
    /\ result = NoCall
    /\ shot_data = None
    /\ rng = None
    /\ built = None
    /\ zone_calculator = ShotZoneCalculator
    /\ analyzer = NBAShotAnalyzer
    /\ engine_source = None

InitDetect ==
    /\ sample \in SampleFiles
    /\ detected = Pending
    /\ Idle

DetectSeason ==
    /\ pc = "detect"
    /\ detected = Pending
    /\ detected' = _detect_season_from_file(sample)
    /\ UNCHANGED <<directory, sample, csv_files, pc, idx, season_file_mapping,
                   metadata_cache, roster_cache, result, shot_data, rng, built,
                   zone_calculator, analyzer, engine_source>>

NextDetect == DetectSeason

SpecDetect == InitDetect /\ [][NextDetect]_vars

---------------------------------------------------------------------------
(* C1 *)

Years == 1998..2022

InWindow(ts, Y) ==
    /\ TsLeq(Timestamp(Y, 10, 1), ts)
    /\ TsLeq(ts, Timestamp(Y + 1, 6, 30))

TwoDigits(n) == <<DigitChars[(n \div 10) + 1], DigitChars[(n % 10) + 1]>>

ClaimedLabel(Y) == str(Y) \o <<"-">> \o TwoDigits((Y + 1) % 100)

Inspectable(file) ==
    /\ ~ReadRaises(file, SampleRows)
    /\ "GAME_DATE" \in file.columns
    /\ SampleDates(file) # {}

\* C1: a shotdetail file whose sampled parseable game dates all lie in
\* [Oct 1 of Y, Jun 30 of Y+1] is given the label "Y-NN", NN = (Y+1) mod 100
\* in two digits, whether its earliest date is in Oct-Dec of Y or in
\* Jan-Jun of Y+1.
C1_WindowLabel ==
    detected # Pending =>
        \A Y \in Years :
            (Inspectable(sample) /\ \A ts \in SampleDates(sample) : InWindow(ts, Y))
                => detected = ClaimedLabel(Y)

\* a file holding only dates of January-June 2022 and of February 2000
\* was labelled
C1_Witness_PlayoffOnly ==
    /\ detected = <<"2", "0", "2", "1", "-", "2", "2">>
    /\ Inspectable(sample)
    /\ \A ts \in SampleDates(sample) : ts.year = 2022 /\ ts.month <= 6

---------------------------------------------------------------------------
(* Specification Spec: the startup scan and the operations after it *)

\* the files that the startup scan alone looks at
ScanOnlyNames == {"shotdetail_2019.csv", "shotdetail_2018.csv"}

\* the directory listings: up to MaxFiles distinct names, in any order
Listings == {l \in SeqsUpTo(FileNames \ ScanOnlyNames, MaxFiles) :
                \A i, j \in DOMAIN l : i # j => l[i] # l[j]}

Init ==
    /\ sample = None
    /\ detected = None
    /\ directory \in {[exists |-> TRUE, listing |-> l] : l \in Listings}
                     \cup {[exists |-> FALSE, listing |-> <<>>]}
    /\ csv_files = <<>>
    /\ pc = "start"
    /\ idx = 0
    /\ season_file_mapping = EmptyDict
    /\ metadata_cache = EmptyDict
    /\ roster_cache = EmptyDict
    /\ result = NoCall
    /\ shot_data = None
    /\ rng = StreamA
    /\ built = None
    /\ zone_calculator = ShotZoneCalculator
    /\ analyzer = NBAShotAnalyzer
    /\ engine_source = None

Next ==
    \/ StartScan
    \/ FirstPassStep
    \/ SecondPass
    \/ ThirdPassStep
    \/ ScanDone
    \/ GetAvailableSeasons
    \/ ValidateDataAvailability
    \/ GetPlayersForTeamSeason
    \/ LoadPlayerShots
    \/ BuildEngine
    \/ ApplyAllFilters

Spec == Init /\ [][Next]_vars

---------------------------------------------------------------------------
(* C2 *)

Scanned == pc \in {"pass3", "ready"}

InIndex(season, key) ==
    season \in DOMAIN metadata_cache /\ key \in DOMAIN metadata_cache[season]

\* C2: once the second pass has put the content-derived shotdetail entries
\* into the index, each of them stays under its (season, shotdetail_reg or
\* shotdetail_po) key exactly as content inspection made it, through the
\* filename-derived pass and afterwards.
C2_ContentEntryKept ==
    Scanned =>
        \A k \in DOMAIN season_file_mapping :
            LET info == season_file_mapping[k]
                key == CacheKey(info.type, info.playoff)
            IN  /\ InIndex(info.actual_season, key)
                /\ metadata_cache[info.actual_season][key] = info

\* the filename-derived pass has added an entry to a season that holds a
\* content-derived shotdetail entry
C2_Witness_SharedSeason ==
    /\ pc = "ready"
    /\ \E s \in DOMAIN metadata_cache :
        \E k1, k2 \in DOMAIN metadata_cache[s] :
            /\ k1[1] = "shotdetail"
            /\ "actual_season" \in DOMAIN metadata_cache[s][k1]
            /\ k2[1] # "shotdetail"

---------------------------------------------------------------------------
(* C3 *)

\* the last two characters of a token
LastTwo(tok) == SubSeq(tok, IF Len(tok) > 2 THEN Len(tok) - 1 ELSE 1, Len(tok))

ClaimedFilenameSeason(year) == str(int(year) - 1) \o <<"-">> \o LastTwo(year)

\* C3: every non-shotdetail file with a numeric year token, of any number of
\* digits, is indexed under "{yearToken-1}-{last two characters of yearToken}".
C3_FilenameSeason ==
    pc = "ready" =>
        \A i \in DOMAIN csv_files :
            LET p == ParsedName(csv_files[i])
                key == CacheKey(p.data_type, p.is_playoff)
            IN  (p.ok /\ isdigit(p.year) /\ p.data_type # "shotdetail") =>
                    /\ InIndex(ClaimedFilenameSeason(p.year), key)
                    /\ metadata_cache[ClaimedFilenameSeason(p.year)][key].filename
                           = csv_files[i]

---------------------------------------------------------------------------
(* C4 *)

\* the shotdetail file load_player_shots resolves for a season
Resolved(season, playoff) == _get_file_path(season, "shotdetail", playoff)

\* the rows of the resolved file that name the player, in file order,
\* tagged with the season type
Matching(season, playoff, player_name) ==
    IF Resolved(season, playoff) = None THEN <<>>
    ELSE LET file == FileAt(Resolved(season, playoff))
             rows == SelectSeq(file.rows, LAMBDA r :
                         "PLAYER_NAME" \in DOMAIN r /\ r.PLAYER_NAME = player_name)
         IN  [i \in DOMAIN rows |->
                 [c \in DOMAIN rows[i] \cup {"season_type"} |->
                     IF c = "season_type"
                     THEN (IF playoff THEN "Playoffs" ELSE "Regular")
                     ELSE rows[i][c]]]

ExpectedRows(season, player_name, include_playoffs) ==
    Matching(season, FALSE, player_name)
    \o (IF include_playoffs THEN Matching(season, TRUE, player_name) ELSE <<>>)

\* a file the call reads is unreadable or corrupt
ReadFails(season, include_playoffs) ==
    \/ (Resolved(season, FALSE) # None /\ Damaged(FileAt(Resolved(season, FALSE))))
    \/ (include_playoffs /\ Resolved(season, TRUE) # None
            /\ Damaged(FileAt(Resolved(season, TRUE))))

\* the rows of a returned frame under the column names and values of the file
SourceRow(r) ==
    [c \in {x \in ShotColumns : Lower(x) \in DOMAIN r} \cup {"season_type"} |->
        IF c = "season_type" THEN r.season_type
        ELSE IF c = "GAME_DATE" THEN r.game_date.year * 10000 + r.game_date.month * 100
                                         + r.game_date.day
        ELSE r[Lower(c)]]

\* C4: load_player_shots returns exactly the rows of the resolved
\* regular-season file that name the player, in file order and tagged
\* "Regular", followed (only if playoffs are included) by those of the
\* playoff file tagged "Playoffs"; no matching row is lost, duplicated or
\* reordered.
C4_LoadedRows ==
    result.op = "load_player_shots" =>
        [i \in DOMAIN result.value.rows |-> SourceRow(result.value.rows[i])]
            = ExpectedRows(result.args[1], result.args[2], result.args[3])

\* the same statement for the calls whose files are all read without error:
\* there the chunking loses, duplicates and reorders nothing
IntactLoadExact ==
    ~(result.op = "load_player_shots" /\ ReadFails(result.args[1], result.args[3]))
        => C4_LoadedRows

---------------------------------------------------------------------------
(* C5 *)

Raised == [raised |-> TRUE]

\* C5: an unreadable or corrupt shotdetail file met while load_player_shots
\* reads it makes the call fail with an error; the call does not return an
\* empty or partial frame.
C5_ReadFailureRaises ==
    (result.op = "load_player_shots" /\ ReadFails(result.args[1], result.args[3])) =>
        result.value = Raised

---------------------------------------------------------------------------
(* C6 *)

\* C6: when the season has no shotdetail file in the index, or no row of
\* the files read names the player, load_player_shots returns the empty
\* frame (it does not raise); and apply_all_filters of an engine built on
\* the empty frame returns the empty frame, whatever the FilterSpec.
C6_EmptyLoadEmptyFilter ==
    /\ (result.op = "load_player_shots"
            /\ ExpectedRows(result.args[1], result.args[2], result.args[3]) = <<>>)
           => result.value = EmptyFrame
    /\ (result.op = "apply_all_filters" /\ shot_data = EmptyFrame)
           => result.value = EmptyFrame

\* an engine was built on the empty frame of a load that found nothing, and
\* a FilterSpec with active dimensions was applied to it
C6_Witness_FilteredEmpty ==
    /\ pc = "ready"
    /\ DOMAIN metadata_cache # {}
    /\ result.op = "apply_all_filters"
    /\ shot_data = EmptyFrame
    /\ \E k \in DOMAIN result.args[3] : result.args[3][k][2] # "All"

---------------------------------------------------------------------------
(* C7 *)

\* C7: after the startup scan no operation modifies the SeasonIndex.
C7_IndexFrozen == [][pc = "ready" => metadata_cache' = metadata_cache]_vars

\* the roster fallback has read the indexed shotdetail file and cached a
\* roster
C7_Witness_OperationsRan ==
    /\ pc = "ready"
    /\ DOMAIN metadata_cache # {}
    /\ RosterKey("BOS", Season2022) \in DOMAIN roster_cache
    /\ result.op = "load_player_shots"

---------------------------------------------------------------------------
(* Specification SpecEngine: the engine on bounded loaded shot sets *)

\* GAME_DATE cells of the games: a back-to-back pair across a month end
\* and a longer break
GameDates == {20221030, 20221031, 20221103}

\* the date of each game id
Schedules == [1..MaxGames -> GameDates]

\* period and minutes remaining of the i-th shot of a frame
ShotPeriods == <<1, 4, 5>>
ShotMinutes == <<10, 2, 0>>

\* the games of the playoff file follow those of the regular-season file
SeasonTypeOf(game) == IF game = MaxGames THEN "Playoffs" ELSE "Regular"

\* the MATCHUP cells of the games of the Celtics, and of a source that
\* names the home team last
GameMatchups ==
    << <<"B", "O", "S", " ", "v", "s", ".", " ", "U", "T", "A">>,
       <<"B", "O", "S", " ", "@", " ", "U", "T", "A">>,
       <<"U", "T", "A", " ", "@", " ", "B", "O", "S">> >>

\* the HTM and VTM cells of a game: the first matchup names a home game of
\* the Celtics, the others games at Utah
HomeTeamOf(game) == IF Draw(GameMatchups, game) = GameMatchups[1] THEN "BOS" ELSE "UTA"
VisitingTeamOf(game) == IF Draw(GameMatchups, game) = GameMatchups[1] THEN "UTA" ELSE "BOS"

LoadedColumns ==
    {"game_event_id", "player_name", "team_name", "game_id", "game_date", "period",
     "minutes_remaining", "season_type"}

\* a frame as load_player_shots returns it, for shots of the games in the
\* sequence games, in that row order
LoadedFrame(schedule, games, columns) ==
    Frame(columns,
          [i \in DOMAIN games |->
              [c \in columns |->
                  CASE c = "game_event_id"     -> i
                    [] c = "player_name"       -> "A"
                    [] c = "team_name"         -> Celtics
                    [] c = "game_id"           -> games[i]
                    [] c = "game_date"         -> to_datetime(schedule[games[i]])
                    [] c = "period"            -> Draw(ShotPeriods, i)
                    [] c = "minutes_remaining" -> Draw(ShotMinutes, i)
                    [] c = "htm"               -> HomeTeamOf(games[i])
                    [] c = "vtm"               -> VisitingTeamOf(games[i])
                    [] c = "matchup"           -> Draw(GameMatchups, games[i])
                    [] OTHER                   -> SeasonTypeOf(games[i])]])

\* row orders of the shots: regular-season rows come before playoff rows
ShotOrders ==
    {games \in UNION {[1..n -> 1..MaxGames] : n \in 1..MaxShots} :
        \A i, j \in DOMAIN games :
            (i < j /\ SeasonTypeOf(games[i]) = "Playoffs")
                => SeasonTypeOf(games[j]) = "Playoffs"}

EngineFrames ==
    {EmptyFrame}
    \cup {LoadedFrame(schedule, games, columns) :
              schedule \in Schedules, games \in ShotOrders,
              columns \in {LoadedColumns, LoadedColumns \ {"game_id"}}}

\* the data manager stays as constructed over a missing directory; the
\* frame handed to the engine is drawn from EngineFrames
InitEngine ==
    /\ sample = None
    /\ detected = None
    /\ directory = [exists |-> FALSE, listing |-> <<>>]
    /\ csv_files = <<>>
    /\ pc = "ready"
    /\ idx = 0
    /\ season_file_mapping = EmptyDict
    /\ metadata_cache = EmptyDict
    /\ roster_cache = EmptyDict
    /\ \E frame \in EngineFrames : result = Returned("shot_set", <<>>, frame)
    /\ shot_data = None
    /\ rng \in {StreamA, StreamB}
    /\ built = None
    /\ zone_calculator = ShotZoneCalculator
    /\ analyzer = NBAShotAnalyzer
    /\ engine_source = None

NextEngine ==
    \/ BuildEngine
    \/ ApplyAllFilters

SpecEngine == InitEngine /\ [][NextEngine]_vars

---------------------------------------------------------------------------
(* C8, C9, C10 *)

\* the engine holds a derived shot set with game ids and game dates
Derived ==
    /\ shot_data # None
    /\ ~IsEmpty(shot_data)
    /\ {"game_id", "game_date"} \subseteq shot_data.columns

Games == {shot_data.rows[i].game_id : i \in DOMAIN shot_data.rows}

ShotOf(game) == shot_data.rows[CHOOSE i \in DOMAIN shot_data.rows :
                                   shot_data.rows[i].game_id = game]

\* a feature has one value on all the shots of each game
SamePerGame(column) ==
    \A i, j \in DOMAIN shot_data.rows :
        shot_data.rows[i].game_id = shot_data.rows[j].game_id
            => shot_data.rows[i][column] = shot_data.rows[j][column]

\* the orders of the games in which dates never decrease
DateOrders ==
    {p \in Orderings(Games) :
        \A k \in 1..(Len(p) - 1) :
            TsLeq(ShotOf(p[k]).game_date, ShotOf(p[k + 1]).game_date)}

ClaimedRest(gapDays) == IF gapDays - 1 > 0 THEN gapDays - 1 ELSE 0

\* C8: after feature derivation all shots of one game carry the same
\* rest_days, and there is a date order of the games in which the first
\* game has rest_days 0 and every other game has max(0, gapDays - 1), gapDays
\* being the days from the previous game's date to its own.
C8_RestDays ==
    Derived =>
        /\ SamePerGame("rest_days")
        /\ \E p \in DateOrders :
               \A k \in DOMAIN p :
                   ShotOf(p[k]).rest_days =
                       IF k = 1 THEN 0
                       ELSE ClaimedRest(DaysBetween(ShotOf(p[k]).game_date,
                                                    ShotOf(p[k - 1]).game_date))

\* three games were derived: two shots of one game, a game two rest days
\* after the previous one, and a game without rest that is not the first
C8_Witness_Gaps ==
    /\ Derived
    /\ Cardinality(Games) >= 2
    /\ Len(shot_data.rows) > Cardinality(Games)
    /\ \E g \in Games : ShotOf(g).rest_days = 2
    /\ \E g \in Games : ShotOf(g).game_num > 1 /\ ShotOf(g).rest_days = 0

\* C9: after feature derivation every shot of a game carries that game's
\* game_num, the game_num of the n distinct games are exactly 1..n, and a
\* game with an earlier date has the smaller game_num.
C9_GameNumbers ==
    Derived =>
        /\ SamePerGame("game_num")
        /\ {ShotOf(g).game_num : g \in Games} = 1..Cardinality(Games)
        /\ \A g1, g2 \in Games :
               (ShotOf(g1).game_date # ShotOf(g2).game_date
                    /\ TsLeq(ShotOf(g1).game_date, ShotOf(g2).game_date))
                   => ShotOf(g1).game_num < ShotOf(g2).game_num

\* games on different dates were numbered, the frame beginning with a shot
\* of the latest game
C9_Witness_OutOfOrder ==
    /\ Derived
    /\ Cardinality(Games) >= 3
    /\ shot_data.rows[1].game_num = Cardinality(Games)
    /\ \A g \in Games : g # shot_data.rows[1].game_id
           => ShotOf(g).game_date # shot_data.rows[1].game_date

\* C10: of two games with the same game date, the one with the smaller
\* game id gets the smaller game_num, in whatever order their shots appear
\* in the frame.
C10_TieByGameId ==
    Derived =>
        \A g1, g2 \in Games :
            (ShotOf(g1).game_date = ShotOf(g2).game_date /\ g1 < g2)
                => ShotOf(g1).game_num < ShotOf(g2).game_num

---------------------------------------------------------------------------
(* Specification SpecHomeAway: the home_away filter in its three modes *)

\* game dates with one, two and no day of rest between them
RestDates == <<20221020, 20221023, 20221025, 20221026>>

RestSchedule == [game \in 1..MaxGames |-> Draw(RestDates, game)]

\* loaded frames with HTM and VTM, with MATCHUP, with neither, and with
\* neither and no GAME_ID
HomeAwayFrames ==
    {LoadedFrame(RestSchedule, games, columns) :
         games \in ShotOrders,
         columns \in {LoadedColumns \cup {"htm", "vtm"}, LoadedColumns \cup {"matchup"},
                      LoadedColumns, LoadedColumns \ {"game_id"}}}

\* filter dicts of two items
PairOf(first_name, first_value, second_name, second_value) ==
    << <<first_name, first_value>>, <<second_name, second_value>> >>

Reversed(filters) == [k \in DOMAIN filters |-> filters[Len(filters) + 1 - k]]

FilterPairs ==
    { PairOf("home_away", "Away", "quarter", "1st"),
      PairOf("home_away", "Home", "rest_days", "Back-to-Back (0 days)"),
      PairOf("quarter", "4th", "season_phase", "Regular Season Only") }

HomeAwaySpecs ==
    {OneFilter("home_away", "Home"), OneFilter("home_away", "Away")}
    \cup FilterPairs \cup {Reversed(filters) : filters \in FilterPairs}

ApplyHomeAway == Apply(HomeAwaySpecs)

InitHomeAway ==
    /\ sample = None
    /\ detected = None
    /\ directory = [exists |-> FALSE, listing |-> <<>>]
    /\ csv_files = <<>>
    /\ pc = "ready"
    /\ idx = 0
    /\ season_file_mapping = EmptyDict
    /\ metadata_cache = EmptyDict
    /\ roster_cache = EmptyDict
    /\ \E frame \in HomeAwayFrames : result = Returned("shot_set", <<>>, frame)
    /\ shot_data = None
    /\ rng \in {StreamA, StreamB}
    /\ built = None
    /\ zone_calculator = ShotZoneCalculator
    /\ analyzer = NBAShotAnalyzer
    /\ engine_source = None

NextHomeAway ==
    \/ BuildEngine
    \/ RebuildEngine
    \/ ApplyHomeAway

SpecHomeAway == InitHomeAway /\ [][NextHomeAway]_vars

---------------------------------------------------------------------------
(* Specification SpecOptions: the options of the rest_days and score_margin boxes *)

\* game dates around a month end, with a back-to-back that is not the first
\* game and a break of three days of rest
BreakDates == <<20221031, 20221030, 20221104, 20221106>>

BreakSchedule == [game \in 1..MaxGames |-> Draw(BreakDates, game)]

OptionFrames ==
    {LoadedFrame(schedule, games, LoadedColumns) :
         schedule \in {RestSchedule, BreakSchedule}, games \in ShotOrders}

RestOptions == {"Back-to-Back (0 days)", "1 Day Rest", "2 Days Rest", "3+ Days Rest"}

MarginOptions == {"Clutch (+-5)", "Close (+-10)", "Blowout (>10)"}

OptionSpecs ==
    {OneFilter("rest_days", option) : option \in RestOptions}
    \cup {OneFilter("score_margin", option) : option \in MarginOptions}

ApplyOption == Apply(OptionSpecs)

InitOptions ==
    /\ sample = None
    /\ detected = None
    /\ directory = [exists |-> FALSE, listing |-> <<>>]
    /\ csv_files = <<>>
    /\ pc = "ready"
    /\ idx = 0
    /\ season_file_mapping = EmptyDict
    /\ metadata_cache = EmptyDict
    /\ roster_cache = EmptyDict
    /\ \E frame \in OptionFrames : result = Returned("shot_set", <<>>, frame)
    /\ shot_data = None
    /\ rng \in {StreamA, StreamB}
    /\ built = None
    /\ zone_calculator = ShotZoneCalculator
    /\ analyzer = NBAShotAnalyzer
    /\ engine_source = None

\* the streak options that ask for no streak: the one of the box and the
\* legacy one
StreakSpecs == {OneFilter("streak", "No Streak"), OneFilter("streak", "Neutral")}

ApplyNoStreak == Apply(StreakSpecs)

NextOptions ==
    \/ BuildEngine
    \/ ApplyOption
    \/ ApplyNoStreak

SpecOptions == InitOptions /\ [][NextOptions]_vars

---------------------------------------------------------------------------
(* Specification SpecColumns: shot sets whose source lacks columns *)

\* the columns a source may lack
LackingSets ==
    {{"period"}, {"period", "minutes_remaining"}, {"game_date"}, {"game_id"}}

LackingFrames ==
    {LoadedFrame(RestSchedule, games, LoadedColumns \ lacking) :
         games \in ShotOrders, lacking \in LackingSets}

\* a filter dict of one item
SingleOf(filter_name, filter_value) == << <<filter_name, filter_value>> >>

ColumnSpecs ==
    { SingleOf("quarter", "1st"),
      SingleOf("season_phase", "Early Season (1-25)"),
      SingleOf("score_margin", "Blowout (>10)"),
      SingleOf("game_flow", "Leading"),
      SingleOf("rest_days", "2 Days Rest"),
      SingleOf("streak", "Win Streak (Any)"),
      SingleOf("back_to_back", "Yes"),
      SingleOf("minutes_played", "Fresh (0-15min)") }

ApplyLacking == Apply(ColumnSpecs)

InitColumns ==
    /\ sample = None
    /\ detected = None
    /\ directory = [exists |-> FALSE, listing |-> <<>>]
    /\ csv_files = <<>>
    /\ pc = "ready"
    /\ idx = 0
    /\ season_file_mapping = EmptyDict
    /\ metadata_cache = EmptyDict
    /\ roster_cache = EmptyDict
    /\ \E frame \in LackingFrames : result = Returned("shot_set", <<>>, frame)
    /\ shot_data = None
    /\ rng \in {StreamA, StreamB}
    /\ built = None
    /\ zone_calculator = ShotZoneCalculator
    /\ analyzer = NBAShotAnalyzer
    /\ engine_source = None

NextColumns ==
    \/ BuildEngine
    \/ ApplyLacking

SpecColumns == InitColumns /\ [][NextColumns]_vars

---------------------------------------------------------------------------
(* Zone Aggregator: ShotZoneCalculator.calculate_zones *)

\* a shot_made_flag cell is <<0>> or <<1>>, or <<>> when the value is missing
Missing == <<>>

\* a float: a number held in tenths, or nan
Float(tenths) == [kind |-> "number", tenths |-> tenths]
NanFloat == [kind |-> "nan"]

zone_columns ==
    <<"shot_zone_basic", "shot_zone_area", "shot_zone_range", "action_type", "shot_type">>

\* Series.nunique(): the distinct values that are not missing
nunique(frame, column) == Cardinality(Range(Column(frame, column)) \ {NaN})

\* the positions in zone_columns of the columns that can be used
usable_zone_columns(shots) ==
    {k \in DOMAIN zone_columns :
         zone_columns[k] \in shots.columns /\ nunique(shots, zone_columns[k]) > 1}

\* the first usable column (None when there is none)
_find_best_zone_column(shots) ==
    IF usable_zone_columns(shots) = {} THEN None
    ELSE zone_columns[CHOOSE k \in usable_zone_columns(shots) :
                          \A other \in usable_zone_columns(shots) : k <= other]

\* 'count' and 'sum' of the cells of a group: missing cells are skipped
RECURSIVE count(_)
count(cells) ==
    IF cells = <<>> THEN 0
    ELSE (IF Head(cells) = Missing THEN 0 ELSE 1) + count(Tail(cells))

RECURSIVE sum(_)
sum(cells) ==
    IF cells = <<>> THEN 0
    ELSE (IF Head(cells) = Missing THEN 0 ELSE Head(cells)[1]) + sum(Tail(cells))

\* round(1) of a quotient of integers times 100, in tenths: to the nearest
\* tenth, halves to the even one
rounded_tenths(made, attempted) ==
    LET floor == (1000 * made) \div attempted
        rest == (1000 * made) % attempted
    IN  IF 2 * rest > attempted THEN floor + 1
        ELSE IF 2 * rest < attempted THEN floor
        ELSE IF floor % 2 = 0 THEN floor
        ELSE floor + 1

\* (made / attempted * 100).round(1): 0 / 0 is nan
percentage_of(made, attempted) ==
    IF attempted = 0 THEN NanFloat ELSE Float(rounded_tenths(made, attempted))

calculate_zones(shots) ==
    IF IsEmpty(shots) \/ usable_zone_columns(shots) = {} THEN EmptyDict
    ELSE LET zone_column == _find_best_zone_column(shots)
             data == Select(shots, LAMBDA r : r[zone_column] # "Backcourt")
             flags(zone_name) ==
                 Column(Select(data, LAMBDA r : r[zone_column] = zone_name),
                        "shot_made_flag")
         IN  [zone_name \in Range(Column(data, zone_column)) \ {NaN} |->
                 [attempted |-> count(flags(zone_name)),
                  made |-> sum(flags(zone_name)),
                  percentage |-> percentage_of(sum(flags(zone_name)),
                                               count(flags(zone_name)))]]

\* the calculator after calculate_zones(shots): both early returns leave it
\* as it was, a full run stores the column and the statistics
calculator_after_zones(calculator, shots) ==
    IF IsEmpty(shots) \/ usable_zone_columns(shots) = {} THEN calculator
    ELSE [zone_stats |-> calculate_zones(shots),
          zone_column |-> _find_best_zone_column(shots)]

\* calculate_zones(filtered_data) on the frame last returned
CalculateZones ==
    /\ pc = "ready"
    /\ result.op \in {"shot_set", "apply_all_filters"}
    /\ result' = Returned("calculate_zones", <<result.value>>, calculate_zones(result.value))
    /\ zone_calculator' = calculator_after_zones(zone_calculator, result.value)
    /\ UNCHANGED <<sample, detected, directory, csv_files, pc, idx, season_file_mapping,
                   metadata_cache, roster_cache, shot_data, rng, built,
                   analyzer, engine_source>>

---------------------------------------------------------------------------
\* the sum of a field over the entries of zone_stats
RECURSIVE total(_, _, _)
total(stats, zones, field) ==
    IF zones = {} THEN 0
    ELSE LET zone == CHOOSE z \in zones : TRUE
         IN  stats[zone][field] + total(stats, zones \ {zone}, field)

\* get_zone_summary(): zeros without statistics, else the totals and the
\* overall percentage, round(., 1), held in tenths
get_zone_summary(calculator) ==
    IF DOMAIN calculator.zone_stats = {}
    THEN [total_attempted |-> 0, total_made |-> 0, overall_percentage |-> Float(0)]
    ELSE LET total_attempted ==
                 total(calculator.zone_stats, DOMAIN calculator.zone_stats, "attempted")
             total_made ==
                 total(calculator.zone_stats, DOMAIN calculator.zone_stats, "made")
         IN  [total_attempted |-> total_attempted,
              total_made |-> total_made,
              overall_percentage |->
                  IF total_attempted > 0
                  THEN Float(rounded_tenths(total_made, total_attempted))
                  ELSE Float(0)]

\* calculate_shots after apply_all_filters returned filtered_data: nothing
\* more when it is empty, else calculate_zones and then get_zone_summary
CalculateShots ==
    /\ pc = "ready"
    /\ result.op = "apply_all_filters"
    /\ ~IsEmpty(result.value)
    /\ zone_calculator' = calculator_after_zones(zone_calculator, result.value)
    /\ result' = Returned("calculate_shots", <<result.value>>,
                     [zones |-> calculate_zones(result.value),
                      summary |-> get_zone_summary(zone_calculator')])
    /\ UNCHANGED <<sample, detected, directory, csv_files, pc, idx, season_file_mapping,
                   metadata_cache, roster_cache, shot_data, rng, built,
                   analyzer, engine_source>>

---------------------------------------------------------------------------
(* Specification SpecZones: calculate_zones on bounded shot sets *)

MaxZoneShots == 3

ZoneNames == {"Restricted Area", "Mid-Range", "Backcourt", NaN}

ShotAreas == <<"Center", "Left Side", "Center">>

\* shots with a basic zone, an area and a made flag
ZoneFrames ==
    {EmptyFrame}
    \cup {Frame({"shot_zone_basic", "shot_zone_area", "shot_made_flag"},
                [i \in 1..n |->
                    [shot_zone_basic |-> zones[i], shot_zone_area |-> Draw(ShotAreas, i),
                     shot_made_flag |-> flags[i]]]) :
              n \in 1..MaxZoneShots,
              zones \in [1..MaxZoneShots -> ZoneNames],
              flags \in [1..MaxZoneShots -> {<<0>>, <<1>>, Missing}]}

InitZones ==
    /\ sample = None
    /\ detected = None
    /\ directory = [exists |-> FALSE, listing |-> <<>>]
    /\ csv_files = <<>>
    /\ pc = "ready"
    /\ idx = 0
    /\ season_file_mapping = EmptyDict
    /\ metadata_cache = EmptyDict
    /\ roster_cache = EmptyDict
    /\ \E frame \in ZoneFrames : result = Returned("shot_set", <<>>, frame)
    /\ shot_data = None
    /\ rng = StreamA
    /\ built = None
    /\ zone_calculator = ShotZoneCalculator
    /\ analyzer = NBAShotAnalyzer
    /\ engine_source = None

NextZones == CalculateZones

SpecZones == InitZones /\ [][NextZones]_vars

---------------------------------------------------------------------------
(* C11 *)

DerivedFeatures ==
    {"game_num", "rest_days", "estimated_margin", "estimated_minutes", "estimated_streak"}

\* two frames carry the same derived features with the same values
SameFeatures(first, second) ==
    \A c \in DerivedFeatures :
        /\ c \in first.columns <=> c \in second.columns
        /\ c \in first.columns => Column(first, c) = Column(second, c)

\* C11: an engine built on a frame identical to the input of an earlier
\* build carries the same game_num, rest_days, estimated_margin,
\* estimated_minutes and estimated_streak as that earlier build gave,
\* wherever the random generator stood when the later build began.
C11_SameFeaturesOnRebuild ==
    (built # None /\ shot_data # None) => SameFeatures(built.output, shot_data)

\* an engine on several games was built again after the home_away fallback
\* had drawn its split, the generator standing elsewhere than at the build
\* before
C11_Witness_RebuiltAfterDraws ==
    /\ built # None
    /\ built.rebuilt
    /\ built.again # built.entry
    /\ result.op = "apply_all_filters"
    /\ result.args[3] = OneFilter("home_away", "Home")
    /\ shot_data.columns \cap {"home_team", "visiting_team", "matchup"} = {}
    /\ shot_data # None
    /\ "game_id" \in shot_data.columns
    /\ Cardinality(Range(Column(shot_data, "game_id"))) >= 2

---------------------------------------------------------------------------
(* C12 *)

\* the last call was apply_all_filters
Filtered == result.op = "apply_all_filters"

\* the filter dict of the last apply_all_filters call
Filters == result.args[3]

\* C12: apply_all_filters with every dimension at "All" returns the
\* engine's shot set: the same rows in the same order with the same values.
C12_AllReturnsEverything ==
    (Filtered /\ \A k \in DOMAIN Filters : Filters[k][2] = "All")
        => result.value = shot_data

\* the eight dimensions at "All" were applied to shots of several games
C12_Witness_AllApplied ==
    /\ Filtered
    /\ Filters = AllFilters
    /\ "game_id" \in shot_data.columns
    /\ Cardinality(Range(Column(shot_data, "game_id"))) >= 2
    /\ result.value.rows # <<>>

---------------------------------------------------------------------------
(* C13, C17, C18 *)

\* what apply_all_filters returns for the items of the last call in the
\* opposite order
OppositeOrder ==
    apply_all_filters(shot_data, result.args[1], result.args[2], Reversed(Filters), rng)

\* C13: for two dimensions with options other than "All" (home_away
\* included, in each of its detection modes), when neither order of the two
\* filters empties the frame, both orders return the same set of rows.
C13_OrderIrrelevant ==
    (Filtered /\ Len(Filters) = 2
         /\ result.value.rows # <<>> /\ OppositeOrder.rows # <<>>)
        => Range(result.value.rows) = Range(OppositeOrder.rows)

\* the last call applied the home_away filter alone
HomeAwayAlone ==
    /\ Filtered
    /\ Filters \in {OneFilter("home_away", "Home"), OneFilter("home_away", "Away")}

\* C17: without home_team/visiting_team and without matchup, "Home" and
\* "Away" each return a non-empty frame for every non-empty frame, frames
\* of a single game included.
C17_FallbackNeverEmpty ==
    (HomeAwayAlone /\ shot_data.rows # <<>>
         /\ shot_data.columns \cap {"home_team", "visiting_team", "matchup"} = {})
        => result.value.rows # <<>>

\* C18: with a matchup column (and no home_team/visiting_team), "Away"
\* returns exactly the rows whose matchup contains '@' and "Home" exactly
\* the rows whose matchup does not: the two are disjoint and cover the
\* rows.
C18_MatchupSplit ==
    (HomeAwayAlone /\ "matchup" \in shot_data.columns
         /\ shot_data.columns \cap {"home_team", "visiting_team"} = {})
        => result.value.rows =
               SelectSeq(shot_data.rows,
                   LAMBDA r : (Filters[1][2] = "Away") <=> contains(r.matchup, <<"@">>))

---------------------------------------------------------------------------
(* C15, C19 *)

\* the last call moved only the box of one dimension from "All"
OnlyBox(filter_name) ==
    /\ Filtered
    /\ \E option \in RestOptions \cup MarginOptions :
           Filters = OneFilter(filter_name, option) /\ option # "All"

\* the option of that box
OptionOf(filter_name) ==
    Filters[CHOOSE k \in DOMAIN Filters : Filters[k][1] = filter_name][2]

\* the rows of shot_data a predicate keeps, in order
Kept(keep(_)) == SelectSeq(shot_data.rows, keep)

\* the games of the shot set are played on different dates
DistinctDates ==
    \A r1, r2 \in Range(shot_data.rows) :
        r1.game_date = r2.game_date => r1.game_id = r2.game_id

\* a shot of the game played before the game of row r
PreviousGames(r) ==
    {q \in Range(shot_data.rows) :
         q.game_date # r.game_date /\ TsLeq(q.game_date, r.game_date)}

\* calendar days from the previous game to the game of row r (0 for the
\* first game)
DaysSincePrevious(r) ==
    IF PreviousGames(r) = {} THEN 0
    ELSE LET last == CHOOSE q \in PreviousGames(r) :
                         \A other \in PreviousGames(r) : TsLeq(other.game_date, q.game_date)
         IN  DaysBetween(r.game_date, last.game_date)

\* C15: on a shot set with game ids and game dates, the rest_days box
\* returns, for "1 Day Rest" and "2 Days Rest", exactly the shots of games
\* played 2 and 3 calendar days after the previous game; for
\* "Back-to-Back (0 days)" exactly the shots with rest_days 0; for
\* "3+ Days Rest" exactly the shots with rest_days >= 3. (Of games on
\* 2022-10-20 and 2022-10-23, "2 Days Rest" returns the second game's.)
C15_RestOptions ==
    (OnlyBox("rest_days") /\ Derived /\ DistinctDates) =>
        result.value.rows =
            CASE OptionOf("rest_days") = "1 Day Rest" ->
                     Kept(LAMBDA r : DaysSincePrevious(r) = 2)
              [] OptionOf("rest_days") = "2 Days Rest" ->
                     Kept(LAMBDA r : DaysSincePrevious(r) = 3)
              [] OptionOf("rest_days") = "Back-to-Back (0 days)" ->
                     Kept(LAMBDA r : r.rest_days = 0)
              [] OptionOf("rest_days") = "3+ Days Rest" ->
                     Kept(LAMBDA r : r.rest_days >= 3)

\* "2 Days Rest" was applied to shots of a game on 2022-10-20 and a game on
\* 2022-10-23, and returned the shots of the second game only
C15_Witness_TwoDaysRest ==
    /\ OnlyBox("rest_days")
    /\ Derived
    /\ OptionOf("rest_days") = "2 Days Rest"
    /\ {r.game_date : r \in Range(shot_data.rows)}
           = {to_datetime(20221020), to_datetime(20221023)}
    /\ result.value.rows # <<>>
    /\ \A r \in Range(result.value.rows) : r.game_date = to_datetime(20221023)

\* C19: the score_margin box keeps exactly the shots with
\* |estimated_margin| <= 5 for "Clutch (+-5)", with |estimated_margin| <= 10
\* for "Close (+-10)", and with |estimated_margin| > 10 for "Blowout (>10)".
C19_MarginOptions ==
    (OnlyBox("score_margin") /\ "estimated_margin" \in shot_data.columns) =>
        result.value.rows =
            CASE OptionOf("score_margin") = "Clutch (+-5)" ->
                     Kept(LAMBDA r : Abs(r.estimated_margin) <= 500)
              [] OptionOf("score_margin") = "Close (+-10)" ->
                     Kept(LAMBDA r : Abs(r.estimated_margin) <= 1000)
              [] OptionOf("score_margin") = "Blowout (>10)" ->
                     Kept(LAMBDA r : Abs(r.estimated_margin) > 1000)

---------------------------------------------------------------------------
(* C14, C20 *)

\* the columns of the source a dimension's rule needs: period for the
\* quarter, game_date for game_num and rest_days, and the inputs of the
\* estimated margin, streak and minutes
NeededBy(filter_name) ==
    CASE filter_name = "quarter"        -> {"period"}
      [] filter_name = "season_phase"   -> {"game_date"}
      [] filter_name = "score_margin"   -> {"period"}
      [] filter_name = "game_flow"      -> {"period"}
      [] filter_name = "rest_days"      -> {"game_date"}
      [] filter_name = "back_to_back"   -> {"game_date"}
      [] filter_name = "streak"         -> {"game_id"}
      [] filter_name = "minutes_played" -> {"period", "minutes_remaining"}

\* C14: when the source lacks what the rule of a dimension needs, applying
\* that dimension with an option returns the engine's frame with exactly
\* the same rows.
C14_LackingLeavesUnchanged ==
    (Filtered /\ built # None /\ Filters \in ColumnSpecs
         /\ NeededBy(Filters[1][1]) \cap built.input.columns = {})
        => result.value = shot_data

\* C20: after the engine is built on a non-empty frame, rest_days,
\* estimated_margin, estimated_minutes and estimated_streak are present
\* with a value on every row.
C20_FeaturesPresent ==
    (shot_data # None /\ ~IsEmpty(shot_data)) =>
        \A c \in {"rest_days", "estimated_margin", "estimated_minutes", "estimated_streak"} :
            /\ c \in shot_data.columns
            /\ \A r \in Range(shot_data.rows) : r[c] \in Int

---------------------------------------------------------------------------
(* C16 *)

\* C16: for shot sets whose shot_made_flag values are 0, 1 or missing,
\* every entry calculate_zones returns has 0 <= made <= attempted, a
\* percentage between 0 and 100, and percentage 0 when attempted is 0.
C16_ZoneEntries ==
    result.op = "calculate_zones" =>
        \A zone_name \in DOMAIN result.value :
            LET entry == result.value[zone_name]
            IN  /\ 0 <= entry.made
                /\ entry.made <= entry.attempted
                /\ entry.percentage.kind = "number"
                /\ 0 <= entry.percentage.tenths
                /\ entry.percentage.tenths <= 1000
                /\ entry.attempted = 0 => entry.percentage = Float(0)

---------------------------------------------------------------------------
(* Specification SpecStreak: the streak walk under every sequence of draws *)

MaxWalkGames == 9

\* np.random.random() in hundredths: below both thresholds, between them,
\* above both
UniformDraws == {30, 57, 80}

\* the walk before its first game
InitStreak ==
    /\ sample = None
    /\ detected = None
    /\ directory = [exists |-> FALSE, listing |-> <<>>]
    /\ csv_files = <<>>
    /\ pc = "streak_walk"
    /\ idx = 0
    /\ season_file_mapping = EmptyDict
    /\ metadata_cache = EmptyDict
    /\ roster_cache = EmptyDict
    /\ result = Returned("streak_step", <<0>>, 0)
    /\ shot_data = None
    /\ rng = seed(StreamA)
    /\ built = None
    /\ zone_calculator = ShotZoneCalculator
    /\ analyzer = NBAShotAnalyzer
    /\ engine_source = None

\* one pass of the loop over sorted(unique_games): args holds the streak
\* before the game, value the streak after it
StreakGame ==
    /\ pc = "streak_walk"
    /\ idx < MaxWalkGames
    /\ \E first \in UniformDraws, second \in UniformDraws :
           LET drawn == [rng EXCEPT !.u = <<first, second>>, !.pos = 0]
               step == streak_step(result.value, drawn, 1)
           IN  /\ result' = Returned("streak_step", <<result.value>>, step.streak)
               /\ rng' = advanced(rng, step.next_draw - 1)
    /\ idx' = idx + 1
    /\ UNCHANGED <<sample, detected, directory, csv_files, pc, season_file_mapping,
                   metadata_cache, roster_cache, shot_data, built, zone_calculator,
                   analyzer, engine_source>>

NextStreak == StreakGame

SpecStreak == InitStreak /\ [][NextStreak]_vars

---------------------------------------------------------------------------
(* C21 *)

\* the streak of the game before, and of the game just walked
PreviousStreak == result.args[1]
CurrentStreak == result.value

\* C21: in the walk over the games, every streak lies in -8..8, and the
\* streak of each game after the first is either the previous streak
\* extended by one with the same sign (held at 8 or -8), or exactly 1 or -1
\* with the sign opposite to the previous streak.
C21_StreakWalk ==
    (pc = "streak_walk" /\ idx >= 1) =>
        /\ CurrentStreak >= -8
        /\ CurrentStreak <= 8
        /\ idx >= 2 =>
               \/ PreviousStreak > 0 /\ CurrentStreak = Clip(PreviousStreak + 1, -8, 8)
               \/ PreviousStreak < 0 /\ CurrentStreak = Clip(PreviousStreak - 1, -8, 8)
               \/ PreviousStreak > 0 /\ CurrentStreak = -1
               \/ PreviousStreak < 0 /\ CurrentStreak = 1

\* a win streak of 8 was held at 8 by the cap
C21_Witness_HeldAtEight ==
    /\ pc = "streak_walk"
    /\ PreviousStreak = 8
    /\ CurrentStreak = 8


---------------------------------------------------------------------------
(* C27 *)

\* C27: on a shot set with a game_id column no shot has estimated_streak 0,
\* and the streak options "No Streak" and "Neutral" return the empty frame.
C27_NeverNeutral ==
    (shot_data # None /\ ~IsEmpty(shot_data) /\ "game_id" \in shot_data.columns) =>
        /\ \A r \in Range(shot_data.rows) : r.estimated_streak # 0
        /\ (Filtered /\ Filters \in StreakSpecs) => result.value.rows = <<>>

\* "No Streak" was applied to shots of several games and returned nothing
C27_Witness_NoStreakEmpty ==
    /\ Derived
    /\ Filtered
    /\ Filters = OneFilter("streak", "No Streak")
    /\ Cardinality(Games) = MaxGames
    /\ result.value.rows = <<>>


---------------------------------------------------------------------------
(* Specification SpecPhase: the season_phase box on shot sets of a whole season *)

MaxPhaseShots == 2

\* game numbers at both sides of the phase limits, and past the regular season
PhaseGameNums == {1, 25, 26, 60, 61, 83}

\* the columns of a derived shot set the season phase rule reads, per shot
\* of a game, in row order
PhaseFrames ==
    {Frame({"game_event_id", "game_id", "game_num", "season_type"},
           [i \in 1..n |->
               [game_event_id |-> i, game_id |-> nums[i], game_num |-> nums[i],
                season_type |-> types[i]]]) :
         n \in 1..MaxPhaseShots,
         nums \in [1..MaxPhaseShots -> PhaseGameNums],
         types \in [1..MaxPhaseShots -> {"Regular", "Playoffs"}]}

PhaseOptions ==
    {"Regular Season Only", "Early Season (1-25)", "Mid Season (26-60)",
     "Late Season (61-82)", "Playoffs Only"}

PhaseSpecs == {OneFilter("season_phase", option) : option \in PhaseOptions}

ApplyPhase == Apply(PhaseSpecs)

\* an engine holding the shots of a season
InitPhase ==
    /\ sample = None
    /\ detected = None
    /\ directory = [exists |-> FALSE, listing |-> <<>>]
    /\ csv_files = <<>>
    /\ pc = "ready"
    /\ idx = 0
    /\ season_file_mapping = EmptyDict
    /\ metadata_cache = EmptyDict
    /\ roster_cache = EmptyDict
    /\ result = NoCall
    /\ shot_data \in PhaseFrames
    /\ rng = StreamA
    /\ built = None
    /\ zone_calculator = ShotZoneCalculator
    /\ analyzer = NBAShotAnalyzer
    /\ engine_source = None

NextPhase == ApplyPhase

SpecPhase == InitPhase /\ [][NextPhase]_vars

---------------------------------------------------------------------------
(* C22 *)

\* the rows apply_all_filters returns for an option of the season_phase box
PhaseRows(option) ==
    Range(apply_all_filters(shot_data, "A", Celtics,
                            OneFilter("season_phase", option), rng).rows)

RegularRow(r) == SeasonTypeContains(r.season_type, "Regular")

\* C22: on a frame with season_type and game_num, "Regular Season Only"
\* returns exactly the rows whose season_type contains "Regular" and
\* "Playoffs Only" exactly those containing "Playoff"; "Early Season (1-25)",
\* "Mid Season (26-60)" and "Late Season (61-82)" return the regular-season
\* rows with game_num <= 25, 26..60 and >= 61: pairwise disjoint sets
\* whose union is the "Regular Season Only" result, without playoff rows.
C22_SeasonPhases ==
    (Filtered /\ Filters \in PhaseSpecs) =>
        /\ result.value.rows =
               CASE OptionOf("season_phase") = "Regular Season Only" ->
                        Kept(LAMBDA r : RegularRow(r))
                 [] OptionOf("season_phase") = "Playoffs Only" ->
                        Kept(LAMBDA r : SeasonTypeContains(r.season_type, "Playoff"))
                 [] OptionOf("season_phase") = "Early Season (1-25)" ->
                        Kept(LAMBDA r : RegularRow(r) /\ r.game_num <= 25)
                 [] OptionOf("season_phase") = "Mid Season (26-60)" ->
                        Kept(LAMBDA r : RegularRow(r) /\ r.game_num >= 26 /\ r.game_num <= 60)
                 [] OptionOf("season_phase") = "Late Season (61-82)" ->
                        Kept(LAMBDA r : RegularRow(r) /\ r.game_num >= 61)
        /\ PhaseRows("Early Season (1-25)") \cup PhaseRows("Mid Season (26-60)")
               \cup PhaseRows("Late Season (61-82)") = PhaseRows("Regular Season Only")
        /\ PhaseRows("Early Season (1-25)") \cap PhaseRows("Mid Season (26-60)") = {}
        /\ PhaseRows("Mid Season (26-60)") \cap PhaseRows("Late Season (61-82)") = {}
        /\ PhaseRows("Early Season (1-25)") \cap PhaseRows("Late Season (61-82)") = {}

\* "Mid Season (26-60)" was applied to shots of games 26 and 60 and kept both
C22_Witness_MidSeasonLimits ==
    /\ Filtered
    /\ Filters = OneFilter("season_phase", "Mid Season (26-60)")
    /\ {r.game_num : r \in Range(result.value.rows)} = {26, 60}


---------------------------------------------------------------------------
(* Specification SpecMinutes: estimated_minutes over the periods and the clock *)

MaxPeriod == 6

\* the minutes left on the clock of a period
ClockMinutes == 0..12

\* loaded frames of one shot, at every period and clock minute
MinuteFrames ==
    {[LoadedFrame(RestSchedule, <<1>>, LoadedColumns)
          EXCEPT !.rows = <<[@[1] EXCEPT !.period = period,
                                         !.minutes_remaining = minutes_remaining]>>] :
         period \in 1..MaxPeriod, minutes_remaining \in ClockMinutes}

MinuteSpecs ==
    {OneFilter("minutes_played", "Heavy (30-40min)"),
     OneFilter("minutes_played", "Exhausted (40+min)")}

ApplyMinutes == Apply(MinuteSpecs)

InitMinutes ==
    /\ sample = None
    /\ detected = None
    /\ directory = [exists |-> FALSE, listing |-> <<>>]
    /\ csv_files = <<>>
    /\ pc = "ready"
    /\ idx = 0
    /\ season_file_mapping = EmptyDict
    /\ metadata_cache = EmptyDict
    /\ roster_cache = EmptyDict
    /\ \E frame \in MinuteFrames : result = Returned("shot_set", <<>>, frame)
    /\ shot_data = None
    /\ rng \in {StreamA, StreamB}
    /\ built = None
    /\ zone_calculator = ShotZoneCalculator
    /\ analyzer = NBAShotAnalyzer
    /\ engine_source = None

NextMinutes ==
    \/ BuildEngine
    \/ ApplyMinutes

SpecMinutes == InitMinutes /\ [][NextMinutes]_vars

---------------------------------------------------------------------------
(* C28 *)

\* C28: with period and minutes_remaining present and minutes_remaining in
\* 0..12, estimated_minutes is 0.75 * ((period - 1) * 12 + 12 -
\* minutes_remaining) clipped to [0, 48] (held in hundredths), at most 36
\* for shots of periods 1-4; "Exhausted (40+min)" returns only shots of
\* period 5 or later, "Heavy (30-40min)" only shots of period 4 or later.
C28_MinutesByClock ==
    (shot_data # None /\ {"period", "minutes_remaining"} \subseteq shot_data.columns) =>
        /\ \A r \in Range(shot_data.rows) :
               /\ r.estimated_minutes =
                      Clip(75 * ((r.period - 1) * 12 + 12 - r.minutes_remaining), 0, 4800)
               /\ r.estimated_minutes >= 0
               /\ r.estimated_minutes <= 4800
               /\ r.period <= 4 => r.estimated_minutes <= 3600
        /\ (Filtered /\ Filters = OneFilter("minutes_played", "Exhausted (40+min)"))
               => \A r \in Range(result.value.rows) : r.period >= 5
        /\ (Filtered /\ Filters = OneFilter("minutes_played", "Heavy (30-40min)"))
               => \A r \in Range(result.value.rows) : r.period >= 4

\* "Exhausted (40+min)" returned an overtime shot whose estimate is held at
\* 48 minutes
C28_Witness_ExhaustedOvertime ==
    /\ Filtered
    /\ Filters = OneFilter("minutes_played", "Exhausted (40+min)")
    /\ \E r \in Range(result.value.rows) :
           r.estimated_minutes = 4800 /\ r.period >= 5


---------------------------------------------------------------------------
(* C24 *)

\* the frame handed to the calculate_zones call that returned last
ZonedFrame == result.args[1]

\* the first of the zone columns that is present with more than one
\* distinct value
SelectedColumn ==
    zone_columns[CHOOSE k \in DOMAIN zone_columns :
        /\ zone_columns[k] \in ZonedFrame.columns
        /\ nunique(ZonedFrame, zone_columns[k]) > 1
        /\ \A earlier \in 1..(k - 1) :
               ~(/\ zone_columns[earlier] \in ZonedFrame.columns
                 /\ nunique(ZonedFrame, zone_columns[earlier]) > 1)]

\* the positions of the rows whose zone is z
RowsOfZone(z) ==
    {i \in DOMAIN ZonedFrame.rows : ZonedFrame.rows[i][SelectedColumn] = z}

\* the made flags with a value among the rows at the positions
MadeAmong(positions) ==
    Cardinality({i \in positions : ZonedFrame.rows[i].shot_made_flag = <<1>>})

\* C24: calculate_zones on a frame for which a zone column is selected
\* returns no entry "Backcourt" and exactly one entry for every other
\* non-null value z of the selected column, with attempted the number of
\* rows whose zone is z and made the sum of their shot_made_flag; the
\* selected column is the first of the five zone columns present with
\* more than one distinct value.
C24_ZoneCounts ==
    (/\ result.op = "calculate_zones"
     /\ usable_zone_columns(ZonedFrame) # {}) =>
        /\ "Backcourt" \notin DOMAIN result.value
        /\ zone_calculator.zone_column = SelectedColumn
        /\ DOMAIN result.value =
               Range(Column(ZonedFrame, SelectedColumn)) \ {"Backcourt", NaN}
        /\ \A z \in DOMAIN result.value :
               /\ result.value[z].attempted = Cardinality(RowsOfZone(z))
               /\ result.value[z].made = MadeAmong(RowsOfZone(z))


---------------------------------------------------------------------------
(* Specification SpecSummary: calculate_shots, one filter setting after another *)

MaxSummaryShots == 3

\* loaded shots with a period, a basic zone and a made flag
SummaryFrames ==
    {Frame({"game_event_id", "period", "shot_zone_basic", "shot_made_flag"},
           [i \in 1..n |->
               [game_event_id |-> i, period |-> Draw(ShotPeriods, i),
                shot_zone_basic |-> zones[i], shot_made_flag |-> flags[i]]]) :
         n \in 1..MaxSummaryShots,
         zones \in [1..MaxSummaryShots -> {"Restricted Area", "Mid-Range"}],
         flags \in [1..MaxSummaryShots -> {<<0>>, <<1>>}]}

SummarySpecs == {AllFilters, OneFilter("quarter", "1st"), OneFilter("quarter", "OT")}

ApplySummary == Apply(SummarySpecs)

InitSummary ==
    /\ sample = None
    /\ detected = None
    /\ directory = [exists |-> FALSE, listing |-> <<>>]
    /\ csv_files = <<>>
    /\ pc = "ready"
    /\ idx = 0
    /\ season_file_mapping = EmptyDict
    /\ metadata_cache = EmptyDict
    /\ roster_cache = EmptyDict
    /\ \E frame \in SummaryFrames : result = Returned("shot_set", <<>>, frame)
    /\ shot_data = None
    /\ rng = StreamA
    /\ built = None
    /\ zone_calculator = ShotZoneCalculator
    /\ analyzer = NBAShotAnalyzer
    /\ engine_source = None

NextSummary ==
    \/ BuildEngine
    \/ ApplySummary
    \/ CalculateShots

SpecSummary == InitSummary /\ [][NextSummary]_vars

---------------------------------------------------------------------------
(* C25 *)

\* C25: after every calculate_zones call, get_zone_summary reports the
\* totals of the map that call returned: total_attempted and total_made
\* are the sums over that map, and all three fields are 0 when the map is
\* empty.
C25_SummaryOfLatestZones ==
    result.op = "calculate_shots" =>
        LET zones == result.value.zones
            summary == result.value.summary
        IN  /\ summary.total_attempted = total(zones, DOMAIN zones, "attempted")
            /\ summary.total_made = total(zones, DOMAIN zones, "made")
            /\ DOMAIN zones = {} => summary.overall_percentage = Float(0)


---------------------------------------------------------------------------
(* Specification SpecScan: the startup scan over shotdetail files *)

MaxScanFiles == 4

\* two files of the same season, three files whose season cannot be
\* detected, and a file that is indexed by its name
ScanNames ==
    {"shotdetail_2022.csv", "shotdetail_2023.csv", "shotdetail_2021.csv",
     "shotdetail_2019.csv", "shotdetail_2018.csv", "nbastats_2023.csv"}

ScanListings == {l \in SeqsUpTo(ScanNames, MaxScanFiles) :
                    \A i, j \in DOMAIN l : i # j => l[i] # l[j]}

InitScan ==
    /\ sample = None
    /\ detected = None
    /\ directory \in {[exists |-> TRUE, listing |-> l] : l \in ScanListings}
    /\ csv_files = <<>>
    /\ pc = "start"
    /\ idx = 0
    /\ season_file_mapping = EmptyDict
    /\ metadata_cache = EmptyDict
    /\ roster_cache = EmptyDict
    /\ result = NoCall
    /\ shot_data = None
    /\ rng = StreamA
    /\ built = None
    /\ zone_calculator = ShotZoneCalculator
    /\ analyzer = NBAShotAnalyzer
    /\ engine_source = None

NextScan ==
    \/ StartScan
    \/ FirstPassStep
    \/ SecondPass
    \/ ThirdPassStep
    \/ ScanDone

SpecScan == InitScan /\ [][NextScan]_vars

---------------------------------------------------------------------------
(* C23, C29 *)

\* the three loops of _build_metadata over a listing, from empty caches
RECURSIVE FirstLoop(_, _)
FirstLoop(mapping, files) ==
    IF files = <<>> THEN mapping
    ELSE FirstLoop(first_pass(mapping, Head(files)), Tail(files))

RECURSIVE ThirdLoop(_, _)
ThirdLoop(cache, files) ==
    IF files = <<>> THEN cache
    ELSE ThirdLoop(third_pass(cache, Head(files)), Tail(files))

IndexOf(listing) ==
    LET files == SelectSeq(listing, EndsWithCsv)
        mapping == FirstLoop(EmptyDict, files)
    IN  ThirdLoop(second_pass(EmptyDict, mapping, DOMAIN mapping), files)

\* the scan is over and found a directory
ScanOver == pc = "ready" /\ directory.exists

\* a listed shotdetail file whose season cannot be detected
Undetectable(filename) ==
    /\ filename \in Range(directory.listing)
    /\ ParsedName(filename).ok
    /\ ParsedName(filename).data_type = "shotdetail"
    /\ _detect_season_from_file(Disk[filename]) = None

\* the files that the index names
IndexedNames ==
    UNION {{metadata_cache[season][key].filename : key \in DOMAIN metadata_cache[season]} :
               season \in DOMAIN metadata_cache}

Without(listing, filename) == SelectSeq(listing, LAMBDA f : f # filename)

\* C23: a shotdetail file without GAME_DATE column, with sampled dates that
\* all fail to parse, or that cannot be read has no entry in the
\* SeasonIndex, and the index is the one of the directory without it.
C23_UndetectableIgnored ==
    ScanOver =>
        \A filename \in FileNames :
            Undetectable(filename) =>
                /\ filename \notin IndexedNames
                /\ metadata_cache = IndexOf(Without(directory.listing, filename))

\* the scan met a file without GAME_DATE, a file whose dates do not parse
\* and a file that cannot be read, and indexed the fourth file alone
C23_Witness_ThreeIgnored ==
    /\ ScanOver
    /\ directory.listing =
           <<"shotdetail_2021.csv", "shotdetail_2022.csv", "shotdetail_2018.csv",
             "shotdetail_2019.csv">>
    /\ "GAME_DATE" \notin Disk["shotdetail_2021.csv"].columns
    /\ SampleDates(Disk["shotdetail_2018.csv"]) = {}
    /\ ReadRaises(Disk["shotdetail_2019.csv"], SampleRows)
    /\ IndexedNames = {"shotdetail_2022.csv"}

\* C29: the SeasonIndex does not depend on the order in which the files
\* of the directory are enumerated, two files of the same (season,
\* data_type, playoff) key included.
C29_OrderIndependent ==
    ScanOver =>
        \A listing \in ScanListings :
            Range(listing) = Range(directory.listing)
                => IndexOf(listing) = metadata_cache


---------------------------------------------------------------------------
(* The window: NBAShotAnalyzer's selection handlers, Calculate and Export *)

\* get_teams_for_season_with_full_names: the full names of the teams of
\* teams_info, sorted; the same for every season
get_teams_for_season_with_full_names(season) == <<Celtics, Jazz>>

\* abbreviation_lookup.get(full_name, full_name)
get_abbreviation_from_full_name(full_name) ==
    CASE full_name = Celtics -> "BOS"
      [] full_name = Jazz    -> "UTA"
      [] OTHER               -> full_name

\* the filter boxes at the time of a click
GuiSpecs == {AllFilters, OneFilter("home_away", "Home")}

\* on_season_changed: a season other than the one shown is picked in the
\* season box; the team box is filled, the player box emptied, Calculate
\* disabled.  The shots and the engine stay.
OnSeasonChanged ==
    /\ pc = "ready"
    /\ \E season \in Range(get_available_seasons) :
           /\ season # analyzer.current_season
           /\ result' = Returned("get_teams_for_season_with_full_names", <<season>>,
                                 get_teams_for_season_with_full_names(season))
           /\ analyzer' = [analyzer EXCEPT !.current_season = season,
                                           !.team_items = result'.value,
                                           !.team_box = None,
                                           !.player_items = <<>>,
                                           !.player_box = None,
                                           !.calculate_enabled = FALSE]
    /\ UNCHANGED <<sample, detected, directory, csv_files, pc, idx, season_file_mapping,
                   metadata_cache, roster_cache, shot_data, rng, built, zone_calculator,
                   engine_source>>

\* on_team_changed: a team other than the one shown is picked in the team
\* box; the player box is filled with the roster, Calculate disabled
OnTeamChanged ==
    /\ pc = "ready"
    /\ \E team \in Range(analyzer.team_items), api_players \in ApiRosters :
           /\ <<team>> # analyzer.team_box
           /\ get_players_for_team_season(analyzer.current_season,
                                          get_abbreviation_from_full_name(team),
                                          api_players)
           /\ analyzer' = [analyzer EXCEPT !.current_team = <<team>>,
                                           !.team_box = <<team>>,
                                           !.player_items = result'.value,
                                           !.player_box = None,
                                           !.calculate_enabled = FALSE]
    /\ UNCHANGED <<sample, detected, directory, csv_files, pc, idx, season_file_mapping,
                   metadata_cache, shot_data, rng, built, zone_calculator, engine_source>>

\* on_player_changed: a player other than the one shown is picked in the
\* player box; the shots are loaded and, when there are any, a new engine
\* is made from them and Calculate enabled
OnPlayerChanged ==
    /\ pc = "ready"
    /\ \E player \in Range(analyzer.player_items) :
           /\ <<player>> # analyzer.player_box
           /\ result' = Returned("load_player_shots", <<analyzer.current_season, player>>,
                                 load_player_shots(analyzer.current_season, player, TRUE))
           /\ analyzer' = [analyzer EXCEPT !.current_player = <<player>>,
                                           !.player_box = <<player>>,
                                           !.shot_data = result'.value,
                                           !.calculate_enabled = ~IsEmpty(result'.value)]
           /\ IF ~IsEmpty(result'.value)
              THEN /\ ConstructEngine(result'.value)
                   /\ engine_source' = [season |-> analyzer.current_season,
                                        team |-> analyzer.current_team,
                                        player |-> <<player>>,
                                        shots |-> result'.value]
              ELSE UNCHANGED <<shot_data, rng, built, engine_source>>
    /\ UNCHANGED <<sample, detected, directory, csv_files, pc, idx, season_file_mapping,
                   metadata_cache, roster_cache, zone_calculator>>

\* both handlers return at once without loaded shots or without an engine
HasShotsAndEngine ==
    /\ analyzer.shot_data # None
    /\ ~IsEmpty(analyzer.shot_data)
    /\ shot_data # None

\* filter_engine.apply_all_filters(current_player, current_team, filters)
\* and, when rows remain, zone_calculator.calculate_zones(filtered_data)
FilterAndZones(handler, filters) ==
    LET player_name == analyzer.current_player[1]
        team == analyzer.current_team[1]
        filtered_data == apply_all_filters(shot_data, player_name, team, filters, rng)
    IN  /\ rng' = generator_after_filters(shot_data, team, filters, rng)
        /\ zone_calculator' = IF IsEmpty(filtered_data) THEN zone_calculator
                              ELSE calculator_after_zones(zone_calculator, filtered_data)
        /\ result' = Returned(handler, <<player_name, team, filters>>,
                         IF IsEmpty(filtered_data) THEN [filtered_data |-> filtered_data]
                         ELSE [filtered_data |-> filtered_data,
                               zones |-> calculate_zones(filtered_data)])

\* calculate_shots, by a click on the enabled Calculate button
ClickCalculate ==
    /\ pc = "ready"
    /\ analyzer.calculate_enabled
    /\ HasShotsAndEngine
    /\ \E filters \in GuiSpecs : FilterAndZones("calculate_shots", filters)
    /\ UNCHANGED <<sample, detected, directory, csv_files, pc, idx, season_file_mapping,
                   metadata_cache, roster_cache, shot_data, built, analyzer, engine_source>>

\* export_current_heatmap, by Ctrl+E or the Export button
ExportCurrentHeatmap ==
    /\ pc = "ready"
    /\ HasShotsAndEngine
    /\ \E filters \in GuiSpecs : FilterAndZones("export_current_heatmap", filters)
    /\ UNCHANGED <<sample, detected, directory, csv_files, pc, idx, season_file_mapping,
                   metadata_cache, roster_cache, shot_data, built, analyzer, engine_source>>

---------------------------------------------------------------------------
(* Specification SpecGui: the window over a scanned directory *)

\* a regular-season file of 2022-23 and a playoff file of 2020-21
GuiListing == <<"shotdetail_2022.csv", "shotdetail_po_2020.csv">>

InitGui ==
    /\ sample = None
    /\ detected = None
    /\ directory = [exists |-> TRUE, listing |-> GuiListing]
    /\ csv_files = <<>>
    /\ pc = "start"
    /\ idx = 0
    /\ season_file_mapping = EmptyDict
    /\ metadata_cache = EmptyDict
    /\ roster_cache = EmptyDict
    /\ result = NoCall
    /\ shot_data = None
    /\ rng \in {StreamA, StreamB}
    /\ built = None
    /\ zone_calculator = ShotZoneCalculator
    /\ analyzer = NBAShotAnalyzer
    /\ engine_source = None

NextGui ==
    \/ StartScan
    \/ FirstPassStep
    \/ SecondPass
    \/ ThirdPassStep
    \/ ScanDone
    \/ OnSeasonChanged
    \/ OnTeamChanged
    \/ OnPlayerChanged
    \/ ClickCalculate
    \/ ExportCurrentHeatmap

SpecGui == InitGui /\ [][NextGui]_vars

---------------------------------------------------------------------------
(* C26 *)

\* C26: whenever calculate_shots or export_current_heatmap calls
\* apply_all_filters, the engine holds the shots loaded for the season and
\* the player now selected, and current_team is the team that was selected
\* when those shots were loaded.
C26_EngineMatchesSelection ==
    result.op \in {"calculate_shots", "export_current_heatmap"} =>
        /\ engine_source.shots =
               load_player_shots(analyzer.current_season, analyzer.current_player[1], TRUE)
        /\ engine_source.team = analyzer.current_team


---------------------------------------------------------------------------
(* C30 *)

\* the generator a freshly built engine leaves behind
FreshGenerator ==
    generator_after_build(_standardize_columns(built.input),
                          [rng EXCEPT !.pos = built.entry])

\* what the call that returned last gives as the first call on a freshly
\* built engine
FirstCall ==
    apply_all_filters(built.output, result.args[1], result.args[2], Filters,
                      FreshGenerator)

\* the place of a row in the engine's shot set
PlaceOf(row) == CHOOSE i \in DOMAIN shot_data.rows : shot_data.rows[i] = row

\* C30: apply_all_filters leaves the engine's shot set and its derived
\* columns as the build made them; after any calls before it, a call
\* returns the rows that the first call with the same filters on a freshly
\* built engine returns, and every returned row is a row of the shot set,
\* unchanged and in the original relative order.
C30_FiltersLeaveEngine ==
    (Filtered /\ built # None) =>
        /\ shot_data = built.output
        /\ result.value.rows = FirstCall.rows
        /\ \A i \in DOMAIN result.value.rows :
               result.value.rows[i] \in Range(shot_data.rows)
        /\ \A i, j \in DOMAIN result.value.rows :
               i < j => PlaceOf(result.value.rows[i]) < PlaceOf(result.value.rows[j])

\* a call that drew no split returned some but not all shots, the generator
\* standing where an earlier call's split left it, not where the build did
C30_Witness_AfterEarlierSplit ==
    /\ Filtered
    /\ built # None
    /\ Filters = PairOf("quarter", "4th", "season_phase", "Regular Season Only")
    /\ rng.pos # FreshGenerator.pos
    /\ Len(result.value.rows) > 0
    /\ Len(result.value.rows) < Len(shot_data.rows)


====
